---- MODULE Spec2Model ----
(***************************************************************************)
(* UPDOG_ROBOT.py: the capability resolver (_try_import and the module-    *)
(* level class selection), the status query, the worker supervisor         *)
(* (_setup_workers_and_threads) and the shutdown protocol (closeEvent).    *)
(*                                                                         *)
(* Strings are TLA+ strings; the Python string operations the code uses    *)
(* (replace, lower, title, "in") are computed character by character.      *)
(***************************************************************************)
EXTENDS Integers, Sequences, FiniteSets, TLC

VARIABLES
  MODULE_IMPORTS_OK,   \* global flag, line 222
  MISSING_MODULES,     \* global list of failure reasons, line 223
  avail,               \* environment: what importing each registry module does
  nItems,              \* length of the items_to_import list used for each module
  calls,               \* number of _try_import calls made for each module
  ret,                 \* value returned by the latest _try_import call per module
  cls,                 \* the _cls / _for_deps globals: selected class name per module
  raised,              \* an exception escaped the resolver
  pc,                  \* position of the main program
  importIdx,           \* next module-level resolution statement (1..8), 9 when done
  workers,             \* MainWindow.workers: insertion-ordered dict of handles
  thread,              \* state of each capability's QThread object
  affinity,            \* thread each worker object lives in: "main" or "own"
  started_run,         \* capabilities whose thread.started is connected to run
  wired,               \* signal names connected to MainWindow slots, per capability
  lacking,             \* capability -> the listed signals its worker class does not have
  cmd_wired,           \* MainWindow command signals connected to worker slots
  setup_failed,        \* capabilities whose setup raised (environment record)
  setupIdx,            \* next element of worker_setups (1..6), 7 when the loop is done
  criticalError,       \* _perform_full_initialization reached its except branch
  camera_on,           \* MainWindow.camera_on
  shown,               \* what the latest module-status dialog displayed
  closeIdx,            \* closeEvent: index in self.workers.items() being processed
  closeStep,           \* closeEvent: position inside the loop body
  cur,                 \* closeEvent: observations made for the worker being processed
  trace,               \* closeEvent: steps performed for the worker being processed
  waits,               \* closeEvent: number of thread.wait calls performed
  stuck,               \* threads that survived terminate()
  accepted,            \* event.accept() was called
  cam,                 \* the CameraWorker object and its run() call
  tts,                 \* a TTSWorker_Dummy, its pending timers and emitted events
  fb,                  \* the other fallback workers: state and emitted events
  issued,              \* how many commands have run on workers besides speak and stop_speaking
  mq,                  \* the main thread's event queue: queued signal deliveries
  handled,             \* per worker, the emission numbers of the events MainWindow handled
  sent,                \* the commands MainWindow issued and how each was sent
  voice_input_on,      \* MainWindow.voice_input_on
  voice_output_enabled, \* MainWindow.voice_output_enabled
  routes,              \* the worker event MainWindow handled last and what its handler did
  current_camera_filter_key, \* MainWindow.current_camera_filter_key
  saver                \* the imaging libraries found and the last call of ImageSaveWorker.save_image

resolverVars == <<MODULE_IMPORTS_OK, MISSING_MODULES, avail, nItems, calls, ret, cls,
                  raised, importIdx>>
supervisorVars == <<workers, thread, affinity, started_run, wired, lacking, cmd_wired,
                    setup_failed, setupIdx>>
closeVars == <<closeIdx, closeStep, cur, trace, waits, stuck, accepted>>
eventVars == <<tts, fb, issued, mq, handled>>
routeVars == <<routes, current_camera_filter_key, saver>>
commandVars == <<sent, voice_input_on, voice_output_enabled, routeVars>>
contractVars == <<eventVars, commandVars>>
workerVars == <<cam, contractVars>>
vars == <<resolverVars, supervisorVars, closeVars, pc, criticalError, camera_on, shown,
          workerVars>>

-----------------------------------------------------------------------------
(* Bounds of the model *)

\* at most this many registry modules fail to load during one startup
MaxFailedImports == 2
\* longest items_to_import list tried when _try_import is exercised on its own
MaxItems == 2
\* number of _try_import calls per module when it is exercised on its own
MaxCalls == 2
\* at most this many capabilities raise during worker setup
MaxSetupFailures == 1
\* at most this many threads survive terminate() during one shutdown
MaxTerminationFailures == 1
\* the camera delivers at most this many frames before its stream ends
MaxFrames == 3
\* the camera thread is started at most this many times
MaxRuns == 2
\* a text given to speak has at most this many words
MaxWords == 2
\* at most this many commands run on the workers in one behaviour
MaxCommands == 2

-----------------------------------------------------------------------------
(* Python string operations *)

LowerLetters == "abcdefghijklmnopqrstuvwxyz"
UpperLetters == "ABCDEFGHIJKLMNOPQRSTUVWXYZ"

\* position of the one-character string c in alphabet, 0 when absent
IndexIn(c, alphabet) ==
  IF \E i \in 1..Len(alphabet) : SubSeq(alphabet, i, i) = c
  THEN CHOOSE i \in 1..Len(alphabet) : SubSeq(alphabet, i, i) = c
  ELSE 0

IsLetter(c) == IndexIn(c, LowerLetters) > 0 \/ IndexIn(c, UpperLetters) > 0

LowerChar(c) ==
  IF IndexIn(c, UpperLetters) > 0
  THEN SubSeq(LowerLetters, IndexIn(c, UpperLetters), IndexIn(c, UpperLetters))
  ELSE c

UpperChar(c) ==
  IF IndexIn(c, LowerLetters) > 0
  THEN SubSeq(UpperLetters, IndexIn(c, LowerLetters), IndexIn(c, LowerLetters))
  ELSE c

\* str.lstrip() and str.rstrip() for blanks
RECURSIVE LStrip(_)
LStrip(s) == IF s # "" /\ SubSeq(s, 1, 1) = " " THEN LStrip(SubSeq(s, 2, Len(s))) ELSE s

RECURSIVE RStrip(_)
RStrip(s) ==
  IF s # "" /\ SubSeq(s, Len(s), Len(s)) = " " THEN RStrip(SubSeq(s, 1, Len(s) - 1)) ELSE s

\* str.strip()
Strip(s) == RStrip(LStrip(s))

\* str.lower()
RECURSIVE Lower(_)
Lower(s) == IF s = "" THEN "" ELSE LowerChar(Head(s)) \o Lower(Tail(s))

\* str.title(): a letter that follows a non-letter is upper-cased, any other
\* letter is lower-cased
RECURSIVE TitleFrom(_, _)
TitleFrom(s, afterLetter) ==
  IF s = "" THEN ""
  ELSE (IF afterLetter THEN LowerChar(Head(s)) ELSE UpperChar(Head(s)))
       \o TitleFrom(Tail(s), IsLetter(Head(s)))

Title(s) == TitleFrom(s, FALSE)

StartsWith(s, p) == Len(p) <= Len(s) /\ SubSeq(s, 1, Len(p)) = p

\* str.replace(old, new) for a non-empty old: leftmost, non-overlapping
RECURSIVE Replace(_, _, _)
Replace(s, old, new) ==
  IF s = "" THEN ""
  ELSE IF StartsWith(s, old)
       THEN new \o Replace(SubSeq(s, Len(old) + 1, Len(s)), old, new)
       ELSE Head(s) \o Replace(Tail(s), old, new)

\* the Python test "sub in s" on strings
Contains(s, sub) ==
  \E i \in 1..(Len(s) - Len(sub) + 1) : SubSeq(s, i, i + Len(sub) - 1) = sub

\* the Python test "x in list"
InList(x, list) == \E i \in 1..Len(list) : list[i] = x

\* sorted(list(set(names))): the set of the names (order is presentation only)
SortedSet(list) == {list[i] : i \in 1..Len(list)}

\* RAW_CAMERA_FILTERS and RAW_DEFAULT_CAMERA_FILTER, lines 108-112
RAW_CAMERA_FILTERS == {"None", "Grayscale", "Blur", "Edges", "Sepia", "Invert", "Cartoon"}
RAW_DEFAULT_CAMERA_FILTER == "None"

-----------------------------------------------------------------------------
(* Module Resolver: _try_import and the module-level class selection *)

\* the eight resolution statements of lines 659-691, in source order
Registry == <<
  [module |-> "emotion_engine", item |-> "EmotionWorker",
   hint |-> "emotion_engine.py", dummy |-> "EmotionWorker_Dummy"],
  [module |-> "robot_appearance", item |-> "RobotAppearanceWidget",
   hint |-> "robot_appearance.py", dummy |-> "RobotAppearanceWidget_Dummy"],
  [module |-> "voice_output_v2", item |-> "TTSWorker",
   hint |-> "voice_output_v2.py", dummy |-> "TTSWorker_Dummy"],
  [module |-> "robot_audio_listener_v2", item |-> "VoiceListenerWorker",
   hint |-> "robot_audio_listener_v2.py", dummy |-> "VoiceListenerWorker_Dummy"],
  [module |-> "nlp_worker_v2", item |-> "NLPWorker",
   hint |-> "nlp_worker_v2.py", dummy |-> "NLPWorker_Dummy"],
  [module |-> "robot_info_module_v2", item |-> "RobotInfoModule",
   hint |-> "robot_info_module_v2.py", dummy |-> "RobotInfoModule_Dummy"],
  [module |-> "grammar_system_v2", item |-> "GrammarSystem",
   hint |-> "grammar_system_v2.py", dummy |-> "GrammarSystem_Dummy"],
  [module |-> "multi_language_correction_v2", item |-> "EnhancedMultilingualCorrector",
   hint |-> "multi_language_correction_v2.py", dummy |-> "MultiLangCorrectionModule_Dummy"] >>

Modules == 1..Len(Registry)

\* the items_to_import list of n names for registry entry m: the class the
\* program asks for, then further names
ItemsList(m, n) ==
  [i \in 1..n |-> IF i = 1 THEN Registry[m].item ELSE "Helper" \o ToString(i)]

ItemSet(items) == {items[i] : i \in 1..Len(items)}

\* what __import__(module_name, fromlist=items) and hasattr can do: the module
\* loads and exposes attrs, it cannot be located, or importing it raises
Unprobed == [load |-> "unprobed", attrs |-> {}]
Availabilities(items) ==
  {[load |-> "ok", attrs |-> A] : A \in SUBSET ItemSet(items)}
    \cup {[load |-> "ImportError", attrs |-> {}], [load |-> "Exception", attrs |-> {}]}

IsReal(av, items) == av.load = "ok" /\ ItemSet(items) \subseteq av.attrs

\* the returned pair: (imported_items or None, bool)
NoneResult == [none |-> TRUE, items |-> {}, ok |-> FALSE]

\* _try_import with an except clause for ImportError only
try_import_uncaught(av, items_to_import, file_hint, imports_ok, missing) ==
  IF av.load = "ok"
  THEN LET imported_items == {x \in ItemSet(items_to_import) : x \in av.attrs}
           all_items_found_in_module == ItemSet(items_to_import) \subseteq av.attrs
       IN [ret |-> IF all_items_found_in_module /\ imported_items # {}
                   THEN [none |-> FALSE, items |-> imported_items, ok |-> TRUE]
                   ELSE NoneResult,
           imports_ok |-> IF all_items_found_in_module THEN imports_ok ELSE FALSE,
           missing |-> IF ~all_items_found_in_module /\ ~InList(file_hint, missing)
                       THEN Append(missing, file_hint \o " (item missing within module)")
                       ELSE missing,
           raised |-> FALSE]
  ELSE IF av.load = "ImportError"
  THEN [ret |-> NoneResult, imports_ok |-> FALSE,
        missing |-> IF ~InList(file_hint, missing) THEN Append(missing, file_hint)
                    ELSE missing,
        raised |-> FALSE]
  ELSE [ret |-> NoneResult, imports_ok |-> imports_ok, missing |-> missing,
        raised |-> TRUE]

\* _try_import that accepts the items it found although one is missing
try_import_partial(av, items_to_import, file_hint, imports_ok, missing) ==
  IF av.load = "ok"
  THEN LET imported_items == {x \in ItemSet(items_to_import) : x \in av.attrs}
           all_items_found_in_module == ItemSet(items_to_import) \subseteq av.attrs
       IN [ret |-> IF imported_items # {}
                   THEN [none |-> FALSE, items |-> imported_items, ok |-> TRUE]
                   ELSE NoneResult,
           imports_ok |-> IF all_items_found_in_module THEN imports_ok ELSE FALSE,
           missing |-> IF ~all_items_found_in_module /\ ~InList(file_hint, missing)
                       THEN Append(missing, file_hint \o " (item missing within module)")
                       ELSE missing,
           raised |-> FALSE]
  ELSE IF av.load = "ImportError"
  THEN [ret |-> NoneResult, imports_ok |-> FALSE,
        missing |-> IF ~InList(file_hint, missing) THEN Append(missing, file_hint)
                    ELSE missing,
        raised |-> FALSE]
  ELSE [ret |-> NoneResult, imports_ok |-> FALSE,
        missing |-> IF ~InList(file_hint, missing)
                    THEN Append(missing, file_hint \o " (unexpected import error)")
                    ELSE missing,
        raised |-> FALSE]

\* _try_import that clears the flag on ImportError without recording the file
try_import_unrecorded(av, items_to_import, file_hint, imports_ok, missing) ==
  IF av.load = "ok"
  THEN LET imported_items == {x \in ItemSet(items_to_import) : x \in av.attrs}
           all_items_found_in_module == ItemSet(items_to_import) \subseteq av.attrs
       IN [ret |-> IF all_items_found_in_module /\ imported_items # {}
                   THEN [none |-> FALSE, items |-> imported_items, ok |-> TRUE]
                   ELSE NoneResult,
           imports_ok |-> IF all_items_found_in_module THEN imports_ok ELSE FALSE,
           missing |-> IF ~all_items_found_in_module /\ ~InList(file_hint, missing)
                       THEN Append(missing, file_hint \o " (item missing within module)")
                       ELSE missing,
           raised |-> FALSE]
  ELSE IF av.load = "ImportError"
  THEN [ret |-> NoneResult, imports_ok |-> FALSE, missing |-> missing, raised |-> FALSE]
  ELSE [ret |-> NoneResult, imports_ok |-> FALSE,
        missing |-> IF ~InList(file_hint, missing)
                    THEN Append(missing, file_hint \o " (unexpected import error)")
                    ELSE missing,
        raised |-> FALSE]

\* _try_import that sets the flag back to True on a successful import
try_import_resets_flag(av, items_to_import, file_hint, imports_ok, missing) ==
  IF av.load = "ok"
  THEN LET imported_items == {x \in ItemSet(items_to_import) : x \in av.attrs}
           all_items_found_in_module == ItemSet(items_to_import) \subseteq av.attrs
       IN [ret |-> IF all_items_found_in_module /\ imported_items # {}
                   THEN [none |-> FALSE, items |-> imported_items, ok |-> TRUE]
                   ELSE NoneResult,
           imports_ok |-> all_items_found_in_module,
           missing |-> IF ~all_items_found_in_module /\ ~InList(file_hint, missing)
                       THEN Append(missing, file_hint \o " (item missing within module)")
                       ELSE missing,
           raised |-> FALSE]
  ELSE IF av.load = "ImportError"
  THEN [ret |-> NoneResult, imports_ok |-> FALSE,
        missing |-> IF ~InList(file_hint, missing) THEN Append(missing, file_hint)
                    ELSE missing,
        raised |-> FALSE]
  ELSE [ret |-> NoneResult, imports_ok |-> FALSE,
        missing |-> IF ~InList(file_hint, missing)
                    THEN Append(missing, file_hint \o " (unexpected import error)")
                    ELSE missing,
        raised |-> FALSE]

\* _try_import(module_name, items_to_import, file_hint), lines 227-290; av is
\* what importing module_name does, imports_ok and missing are the globals
\* MODULE_IMPORTS_OK and MISSING_MODULES before the call
_try_import(av, items_to_import, file_hint, imports_ok, missing) ==
  IF av.load = "ok"
  THEN LET imported_items == {x \in ItemSet(items_to_import) : x \in av.attrs}
           all_items_found_in_module == ItemSet(items_to_import) \subseteq av.attrs
       IN [ret |-> IF all_items_found_in_module /\ imported_items # {}
                   THEN [none |-> FALSE, items |-> imported_items, ok |-> TRUE]
                   ELSE NoneResult,
           imports_ok |-> IF all_items_found_in_module THEN imports_ok ELSE FALSE,
           missing |-> IF ~all_items_found_in_module /\ ~InList(file_hint, missing)
                       THEN Append(missing, file_hint \o " (item missing within module)")
                       ELSE missing,
           raised |-> FALSE]
  ELSE IF av.load = "ImportError"
  THEN [ret |-> NoneResult, imports_ok |-> FALSE,
        missing |-> IF ~InList(file_hint, missing) THEN Append(missing, file_hint)
                    ELSE missing,
        raised |-> FALSE]
  ELSE [ret |-> NoneResult, imports_ok |-> FALSE,
        missing |-> IF ~InList(file_hint, missing)
                    THEN Append(missing, file_hint \o " (unexpected import error)")
                    ELSE missing,
        raised |-> FALSE]

\* X_cls = imported["X"] if imported else X_Dummy: the selected class, by name
\* (a real class is named as the item it was imported under)
SelectClass(r, m) ==
  IF ~r.none /\ r.items # {} THEN Registry[m].item ELSE Registry[m].dummy

IsDummyName(name) == Contains(name, "Dummy")

\* registry modules already resolved to their fallback
FallenBack == {m \in Modules : calls[m] > 0 /\ IsDummyName(cls[m])}

\* one resolution statement: the call and the class selection that follows it
Resolve(m, n, av) ==
  LET items == ItemsList(m, n)
      r == _try_import(av, items, Registry[m].hint, MODULE_IMPORTS_OK, MISSING_MODULES)
  IN /\ avail' = [avail EXCEPT ![m] = av]
     /\ nItems' = [nItems EXCEPT ![m] = n]
     /\ calls' = [calls EXCEPT ![m] = @ + 1]
     /\ ret' = [ret EXCEPT ![m] = r.ret]
     /\ MODULE_IMPORTS_OK' = r.imports_ok
     /\ MISSING_MODULES' = r.missing
     /\ raised' = (raised \/ r.raised)
     /\ cls' = [cls EXCEPT ![m] = IF r.raised THEN @ ELSE SelectClass(r.ret, m)]

\* module-level resolution at startup, lines 656-691: the next statement runs
ResolveNext ==
  /\ pc = "import"
  /\ importIdx \in Modules
  /\ ~raised
  /\ \E av \in Availabilities(ItemsList(importIdx, 1)) :
       /\ IsReal(av, ItemsList(importIdx, 1))
            \/ Cardinality(FallenBack) < MaxFailedImports
       /\ Resolve(importIdx, 1, av)
  /\ importIdx' = importIdx + 1
  /\ pc' = IF importIdx = Len(Registry) THEN "main" ELSE "import"
  /\ UNCHANGED <<workerVars, supervisorVars, closeVars, criticalError, camera_on, shown>>

\* _try_import exercised on its own: one registry module is resolved
\* repeatedly with the same arguments while its availability stays the same
TryImportCall(m) ==
  /\ pc = "try_import"
  /\ ~raised
  /\ calls[m] < MaxCalls
  /\ \A o \in Modules \ {m} : calls[o] = 0
  /\ \E n \in 1..MaxItems : \E av \in Availabilities(ItemsList(m, n)) :
       /\ calls[m] > 0 => (n = nItems[m] /\ av = avail[m])
       /\ Resolve(m, n, av)
  /\ UNCHANGED <<workerVars,
                 importIdx, pc, supervisorVars, closeVars, criticalError, camera_on, shown>>

-----------------------------------------------------------------------------
(* MainWindow.workers: an insertion-ordered dict, as a sequence of handles *)

NoHandle == [name |-> "", worker |-> "None", thread |-> FALSE]

\* self.workers.get(key): the handle stored under key, NoHandle when absent
WorkersGet(ws, key) ==
  IF \E i \in 1..Len(ws) : ws[i].name = key
  THEN ws[CHOOSE i \in 1..Len(ws) : ws[i].name = key]
  ELSE NoHandle

WorkerNames(ws) == {ws[i].name : i \in 1..Len(ws)}

-----------------------------------------------------------------------------
(* Status query: MainWindow._get_module_statuses and show_module_status_slot *)

\* module_map of _get_module_statuses, lines 2268-2278, in dict order; entry m
\* reads the class selected for registry entry m
module_map == <<
  [display_name |-> "Emotion Engine", is_managed_worker |-> TRUE],
  [display_name |-> "Robot Appearance Renderer", is_managed_worker |-> FALSE],
  [display_name |-> "TTS Engine", is_managed_worker |-> TRUE],
  [display_name |-> "Voice Listener (STT)", is_managed_worker |-> TRUE],
  [display_name |-> "NLP System Core", is_managed_worker |-> TRUE],
  [display_name |-> "Robot Information Service", is_managed_worker |-> FALSE],
  [display_name |-> "Grammar System (for NLP)", is_managed_worker |-> FALSE],
  [display_name |-> "Multi-Lang Corrector (for NLP)", is_managed_worker |-> FALSE] >>

\* the approximate key for self.workers, lines 2285-2288
worker_name_key(display_name) ==
  Replace(Replace(Replace(Replace(Replace(Replace(Replace(Replace(
    Lower(display_name), " (stt)", ""), " (for nlp)", ""), " ", "_"),
    "_engine", ""), "_core", ""), "_renderer", ""), "_service", ""), "_system", "")

\* display_hint of lines 2304
display_hint(missing_file_hint) ==
  Title(Replace(Replace(missing_file_hint, ".py", ""), "_", " "))

\* worker_name_key of each module_map entry
WorkerNameKeys == [m \in 1..Len(module_map) |-> worker_name_key(module_map[m].display_name)]

\* is_dummy of one module_map entry, lines 2281-2294
is_dummy(m, classes, ws) ==
  LET worker_data == WorkersGet(ws, WorkerNameKeys[m])
  IN IF module_map[m].is_managed_worker /\ worker_data.worker # "None"
     THEN IsDummyName(worker_data.worker)
     ELSE IsDummyName(classes[m])

\* the loop of lines 2302-2307 over MISSING_MODULES from index i on
RECURSIVE AddMissing(_, _, _, _)
AddMissing(missing, i, active, fallback) ==
  IF i > Len(missing) THEN fallback
  ELSE LET hint == display_hint(missing[i])
       IN AddMissing(missing, i + 1, active,
            IF /\ ~\E k \in 1..Len(fallback) : Contains(fallback[k], hint)
               /\ ~\E k \in 1..Len(active) : Contains(active[k], hint)
            THEN Append(fallback, hint \o " (Import Failed)")
            ELSE fallback)

\* _get_module_statuses that lists every component as active
get_module_statuses_all_active(classes, ws, missing) ==
  LET picked(d) == SelectSeq([m \in Modules |-> m], LAMBDA m : is_dummy(m, classes, ws) = d)
      names(d) == [k \in 1..Len(picked(d)) |-> module_map[picked(d)[k]].display_name]
  IN [active |-> SortedSet(names(FALSE) \o names(TRUE)),
      fallback |-> SortedSet(AddMissing(missing, 1, names(FALSE), names(TRUE)))]

\* MainWindow._get_module_statuses, lines 2258-2309
_get_module_statuses(classes, ws, missing) ==
  LET picked(d) == SelectSeq([m \in Modules |-> m], LAMBDA m : is_dummy(m, classes, ws) = d)
      names(d) == [k \in 1..Len(picked(d)) |-> module_map[picked(d)[k]].display_name]
  IN [active |-> SortedSet(names(FALSE)),
      fallback |-> SortedSet(AddMissing(missing, 1, names(FALSE), names(TRUE)))]

\* MainWindow.check_module_import_status_and_notify, lines 2493-2513: the
\* branch taken, by the status message it shows
check_module_import_status_and_notify(missing, imports_ok) ==
  IF missing # <<>> THEN "Warning: Core modules failed to import"
  ELSE IF ~imports_ok THEN "Note: Some optional modules might not have loaded"
  ELSE "All essential modules appear loaded"

NothingShown == [open |-> FALSE, active |-> {}, fallback |-> {}, failures |-> <<>>]

-----------------------------------------------------------------------------
(* Main program *)

\* the methods the MainWindow class body defines, among those the startup
\* sequence calls; _setup_workers_and_threads is defined at line 2524 inside
\* the body of check_module_import_status_and_notify, not in the class body
MainWindowMethods == {
  "_perform_full_initialization", "_load_config", "_setup_logging", "_load_app_icons",
  "_apply_theme", "_init_ui", "_initial_worker_calls_and_notifications",
  "check_module_import_status_and_notify", "_get_module_statuses",
  "show_module_status_slot", "toggle_camera_slot", "closeEvent" }

\* MainWindow.__init__, lines 1209-1272 (the main block constructs the window)
MainWindowInit ==
  /\ pc = "main"
  /\ pc' = "constructed"
  /\ workers' = <<>>
  /\ camera_on' = FALSE
  /\ UNCHANGED <<workerVars, resolverVars, thread, affinity, started_run, wired, lacking, cmd_wired,
                 setup_failed, setupIdx, closeVars, criticalError, shown>>

\* MainWindow._perform_full_initialization, lines 1274-1350: steps 1-7 build
\* the configuration and the interface, step 8 calls
\* self._setup_workers_and_threads(); an attribute the class does not define
\* raises AttributeError, which the except branch of line 1339 handles
_perform_full_initialization ==
  /\ pc = "constructed"
  /\ IF "_setup_workers_and_threads" \in MainWindowMethods
     THEN pc' = "setup" /\ UNCHANGED criticalError
     ELSE pc' = "running" /\ criticalError' = TRUE
  /\ UNCHANGED <<workerVars, resolverVars, supervisorVars, closeVars, camera_on, shown>>

\* MainWindow.show_module_status_slot, lines 2237-2256
show_module_status_slot ==
  /\ pc = "running"
  /\ LET st == _get_module_statuses(cls, workers, MISSING_MODULES)
     IN shown' = [open |-> TRUE, active |-> st.active, fallback |-> st.fallback,
                  failures |-> MISSING_MODULES]
  /\ UNCHANGED <<workerVars,
                 resolverVars, supervisorVars, closeVars, pc, criticalError, camera_on>>

-----------------------------------------------------------------------------
(* Worker Supervisor: _setup_workers_and_threads, lines 2524-2693 *)

\* worker_setups, lines 2535-2542: name and class; reg is the registry entry
\* whose selected class is used, 0 for the two internal workers
worker_setups == <<
  [name |-> "emotion", reg |-> 1, class |-> ""],
  [name |-> "tts", reg |-> 3, class |-> ""],
  [name |-> "voice_listener", reg |-> 4, class |-> ""],
  [name |-> "nlp", reg |-> 5, class |-> ""],
  [name |-> "camera", reg |-> 0, class |-> "CameraWorker"],
  [name |-> "image_save", reg |-> 0, class |-> "ImageSaveWorker"] >>

Capabilities == {worker_setups[i].name : i \in 1..Len(worker_setups)}

WorkerClass(i, classes) ==
  IF worker_setups[i].reg = 0 THEN worker_setups[i].class
  ELSE classes[worker_setups[i].reg]

\* original_setups_data, lines 2650-2657: the signals wired per capability
original_setups_data == [c \in Capabilities |->
  CASE c = "emotion" -> {"emotion_detected", "error"}
    [] c = "tts" -> {"speech_started", "speech_word_boundary", "speech_finished",
                     "available_voices_signal", "error"}
    [] c = "voice_listener" -> {"text_recognized", "listening_started_signal",
                                "listening_stopped_signal", "vad_status_changed",
                                "listening_error", "error"}
    [] c = "nlp" -> {"processing_complete", "error"}
    [] c = "camera" -> {"frame_ready", "error"}
    [] c = "image_save" -> {"image_saved", "error"}]

\* the signals and slots each worker class of this file defines, lines 296-647
\* and 712-953; a real external class is taken to expose what the wiring and
\* the command connections ask for
ClassAttributes(c, class) ==
  IF IsDummyName(class) \/ c \in {"camera", "image_save"}
  THEN original_setups_data[c] \cup {"finished", "status_update", "shutdown", "stop"}
       \cup (CASE c = "emotion" -> {"analyze_text_emotion"}
               [] c = "tts" -> {"speak", "stop_speaking", "initialize_engine",
                                "set_voice", "set_rate", "set_volume"}
               [] c = "voice_listener" -> {"start_listening", "stop_listening",
                                           "initialize_microphone", "set_language"}
               [] c = "nlp" -> {"process_user_input"}
               [] c = "camera" -> {"set_filter", "run"}
               [] c = "image_save" -> {"save_image"})
  ELSE original_setups_data[c]
       \cup {"finished", "analyze_text_emotion", "stop_speaking", "process_user_input"}

\* whether the constructor call of lines 2552-2639 passes parent=self: always
\* for the dummies that take one and for the internal workers, never for tts
\* and the real voice listener, and either way for the real emotion and nlp
\* classes (the call without or with parent is the retry after TypeError)
ParentChoices(c, class) ==
  CASE c = "tts" -> {FALSE}
    [] c = "voice_listener" -> {IsDummyName(class)}
    [] c \in {"emotion", "nlp"} -> IF IsDummyName(class) THEN {TRUE} ELSE {TRUE, FALSE}
    [] OTHER -> {TRUE}

\* QObject.moveToThread(thread): an object that has a parent is not moved
moveToThread(has_parent) == IF has_parent THEN "main" ELSE "own"

SetupFailures == {c \in Capabilities : setup_failed[c] # "no"}

\* the connections lines 2658-2664 would make if the loop stopped for good at
\* a signal the worker does not have
Wire_abort(c, class, lacks) ==
  IF original_setups_data[c] \cap lacks = {}
  THEN original_setups_data[c] \cap ClassAttributes(c, class)
  ELSE {}

\* the connections of lines 2658-2664 for a worker of the given class that
\* lacks the signals lacks: a listed signal the worker has is connected (every
\* handler of the table is a method of MainWindow), one it does not have is
\* logged and the loop goes on
Wire(c, class, lacks) ==
  original_setups_data[c] \cap (ClassAttributes(c, class) \ lacks)

\* one iteration of the loop of lines 2544-2681 for worker_setups[i]: outcome
\* is "ok", or the step that raised: "construct" (lines 2550-2642) or "wiring"
\* (lines 2644-2668); lacks are the listed signals the worker does not have
SetupWorkerWith(i, outcome, has_parent, lacks) ==
  LET c == worker_setups[i].name
      class == WorkerClass(i, cls)
  IN IF outcome = "ok"
     THEN /\ workers' = Append(workers, [name |-> c, worker |-> class, thread |-> TRUE])
          /\ affinity' = [affinity EXCEPT ![c] = moveToThread(has_parent)]
          /\ wired' = [wired EXCEPT ![c] = Wire(c, class, lacks)]
          /\ lacking' = [lacking EXCEPT ![c] = lacks]
          /\ started_run' = IF c = "camera" /\ "run" \in ClassAttributes(c, class)
                            THEN started_run \cup {c} ELSE started_run
          /\ thread' = [thread EXCEPT ![c] = IF c # "camera" THEN "running" ELSE "created"]
          /\ setupIdx' = i + 1
          /\ UNCHANGED <<MISSING_MODULES, setup_failed>>
     ELSE /\ workers' = Append(workers, [name |-> c, worker |-> "None", thread |-> FALSE])
          /\ MISSING_MODULES' = IF ~InList(c, MISSING_MODULES)
                                THEN Append(MISSING_MODULES, c \o " (setup_failed)")
                                ELSE MISSING_MODULES
          /\ setup_failed' = [setup_failed EXCEPT ![c] = outcome]
          /\ thread' = [thread EXCEPT ![c] = IF outcome = "wiring" THEN "created" ELSE "none"]
          /\ setupIdx' = i + 1
          /\ UNCHANGED <<affinity, wired, lacking, started_run>>

\* the iteration for a worker class that has every listed signal, as the
\* classes of this file do
SetupWorker(i, outcome, has_parent) == SetupWorkerWith(i, outcome, has_parent, {})

\* the next iteration of the setup loop runs
SetupNext ==
  /\ pc = "setup"
  /\ setupIdx \in 1..Len(worker_setups)
  /\ \E outcome \in {"ok", "construct", "wiring"} :
     \E has_parent \in ParentChoices(worker_setups[setupIdx].name,
                                     WorkerClass(setupIdx, cls)) :
       /\ outcome = "ok" \/ Cardinality(SetupFailures) < MaxSetupFailures
       /\ outcome # "ok" => has_parent = (TRUE \in ParentChoices(
                               worker_setups[setupIdx].name, WorkerClass(setupIdx, cls)))
       /\ SetupWorker(setupIdx, outcome, has_parent)
  /\ UNCHANGED <<workerVars, MODULE_IMPORTS_OK, avail, nItems, calls, ret, cls, raised, importIdx,
                 cmd_wired, closeVars, pc, criticalError, camera_on, shown>>

\* the next iteration of the setup loop runs for a real external worker class
\* that does not have one of the signals listed for it
SetupNextPartial ==
  /\ pc = "setup"
  /\ setupIdx \in 1..Len(worker_setups)
  /\ worker_setups[setupIdx].reg # 0
  /\ ~IsDummyName(WorkerClass(setupIdx, cls))
  /\ \E signal \in original_setups_data[worker_setups[setupIdx].name] :
     \E has_parent \in ParentChoices(worker_setups[setupIdx].name,
                                     WorkerClass(setupIdx, cls)) :
       SetupWorkerWith(setupIdx, "ok", has_parent, {signal})
  /\ UNCHANGED <<workerVars, MODULE_IMPORTS_OK, avail, nItems, calls, ret, cls, raised, importIdx,
                 cmd_wired, closeVars, pc, criticalError, camera_on, shown>>

\* the command connections of lines 2683-2691, then the function returns
SetupConnect ==
  /\ pc = "setup"
  /\ setupIdx = Len(worker_setups) + 1
  /\ cmd_wired' =
       {x \in {[signal |-> "start_nlp_processing", to |-> "nlp", slot |-> "process_user_input"],
               [signal |-> "request_emotion_analysis", to |-> "emotion",
                slot |-> "analyze_text_emotion"],
               [signal |-> "stop_tts_signal", to |-> "tts", slot |-> "stop_speaking"],
               [signal |-> "request_camera_filter_change", to |-> "camera",
                slot |-> "set_filter"]} :
          /\ x.to \in WorkerNames(workers)
          /\ WorkersGet(workers, x.to).worker # "None"
          /\ x.slot \in ClassAttributes(x.to, WorkersGet(workers, x.to).worker)}
  /\ pc' = "running"
  /\ UNCHANGED <<workerVars, resolverVars, workers, thread, affinity, started_run, wired, lacking,
                 setup_failed, setupIdx, closeVars, criticalError, camera_on, shown>>

-----------------------------------------------------------------------------
(* Orchestrator slot that starts and stops the camera thread *)

\* the methods the worker classes of this file declare with @pyqtSlot, lines
\* 431-629 and 780-885: these are the methods Qt's meta-object system knows
Slots(c) ==
  CASE c = "emotion" -> {"analyze_text_emotion"}
    [] c = "tts" -> {"initialize_engine", "speak", "stop_speaking", "set_voice",
                     "set_rate", "set_volume"}
    [] c = "voice_listener" -> {"initialize_microphone", "start_listening",
                                "stop_listening", "set_language"}
    [] c = "nlp" -> {"process_user_input"}
    [] c = "camera" -> {"set_filter", "run"}
    [] c = "image_save" -> {"save_image"}

\* QMetaObject.invokeMethod(obj, member, Qt.QueuedConnection): the call is
\* queued when member is a slot of the object and fails (returns False, no
\* exception) otherwise; whether a real external class declares the method as
\* a slot is not known here
invokeMethod(c, class, member) ==
  IF IsDummyName(class) \/ c \in {"camera", "image_save"}
  THEN {member \in Slots(c)}
  ELSE {TRUE, FALSE}

\* the CameraWorker object as CameraWorker.__init__ leaves it (lines 764-778,
\* with _is_running = True from Worker.__init__, line 730) and the state of
\* its run() call: pc is "idle" before run() is called, "loop" at the test of
\* the while loop, "read" inside an iteration, "exit" after the loop, "done"
\* when run() has returned and "raised" when an exception has left run();
\* context is the thread the last call of run() executes on, stop_requested
\* whether stop() has been called since the thread was last started,
\* filter_queue the set_filter calls posted to the worker and not yet run,
\* filter_arg the key given to the last set_filter call made on its own
NoCam == [pc |-> "idle", is_running |-> TRUE, cap |-> "None", acquired |-> FALSE,
          events |-> <<>>, frames |-> 0, released_at |-> 0, cause |-> "none",
          off_requested |-> FALSE, since_off |-> 0, stop_queued |-> FALSE, runs |-> 0,
          context |-> "none", stop_requested |-> FALSE,
          current_filter_key |-> RAW_DEFAULT_CAMERA_FILTER, filter_queue |-> <<>>,
          filter_arg |-> RAW_DEFAULT_CAMERA_FILTER]

\* a set_filter that accepts any key
set_filter_any(w, filter_key) == [w EXCEPT !.current_filter_key = filter_key]

\* CameraWorker.set_filter(filter_key), lines 780-788
set_filter(w, filter_key) ==
  IF filter_key \in RAW_CAMERA_FILTERS
  THEN [w EXCEPT !.current_filter_key = filter_key]
  ELSE w

\* run() is executing its capture loop
CameraLooping == cam.pc \in {"loop", "read"}

\* a command MainWindow issues to the worker of capability c: how is "call"
\* for a plain method call, "direct" for a signal whose connection calls the
\* slot at the emit, "queued" for one posted to the worker's event queue
Send(how, c, member) == [to |-> c, member |-> member, how |-> how]

\* QMetaObject.invokeMethod(worker, member, Qt.QueuedConnection), lines 2879,
\* 2905, 2923 and 2936: the call is posted when the worker has that slot,
\* and nothing is sent otherwise
InvokeQueued(c, member) ==
  LET info == WorkersGet(workers, c)
  IN \E queued \in invokeMethod(c, info.worker, member) :
       sent' = IF queued THEN sent \cup {Send("queued", c, member)} ELSE sent

\* signal.emit() of a MainWindow command signal, line 2891: the connections
\* of lines 2683-2691 are automatic, so the slot of a worker living in the
\* main thread is called at the emit and one in its own thread gets it posted
EmitCommand(signal) ==
  {Send(IF affinity[x.to] = "main" THEN "direct" ELSE "queued", x.to, x.slot) :
     x \in {y \in cmd_wired : y.signal = signal}}

\* MainWindow.toggle_camera_slot(checked), lines 2774-2810: turning the camera
\* on calls set_filter on the worker and starts the thread when it is not
\* running (thread.started then calls run()); turning it off while the thread
\* runs requests a queued stop()
toggle_camera_slot(checked) ==
  /\ pc = "running"
  /\ LET cam_worker_info == WorkersGet(workers, "camera")
     IN IF cam_worker_info.worker # "None" /\ cam_worker_info.thread
        THEN /\ camera_on' = checked
             /\ thread' = IF checked /\ thread["camera"] # "running"
                          THEN [thread EXCEPT !["camera"] = "running"]
                          ELSE thread
             /\ IF checked /\ thread["camera"] # "running"
                THEN /\ cam.pc # "idle" => cam.runs < MaxRuns
                     /\ cam' = set_filter(
                                 [cam EXCEPT !.pc = "idle", !.events = <<>>, !.frames = 0,
                                             !.released_at = 0, !.cause = "none",
                                             !.acquired = FALSE, !.off_requested = FALSE,
                                             !.since_off = 0, !.stop_requested = FALSE],
                                 current_camera_filter_key)
                     /\ sent' = sent \cup {Send("call", "camera", "set_filter")}
                ELSE IF ~checked /\ thread["camera"] = "running"
                THEN \E queued \in invokeMethod("camera", cam_worker_info.worker, "stop") :
                       /\ cam' = [cam EXCEPT !.stop_queued = @ \/ queued,
                                             !.off_requested = @ \/ CameraLooping]
                       /\ sent' = IF queued THEN sent \cup {Send("queued", "camera", "stop")}
                                  ELSE sent
                ELSE UNCHANGED <<cam, sent>>
        ELSE /\ camera_on' = FALSE
             /\ UNCHANGED <<thread, cam, sent>>
  /\ UNCHANGED <<resolverVars, workers, affinity, started_run, wired, lacking, cmd_wired,
                 setup_failed, setupIdx, closeVars, pc, criticalError, shown,
                 eventVars, voice_input_on, voice_output_enabled, routeVars>>

\* the keys the filter combo box is changed to here; its items are the keys
\* of RAW_CAMERA_FILTERS (lines 1729-1731)
FilterChoices == {"None", "Sepia"}

\* MainWindow._handle_filter_combo_change_slot(index), lines 2812-2827, for
\* an item other than the current one: the key is stored and, when the camera
\* is on, request_camera_filter_change is emitted; set_filter runs inside the
\* emit for a worker living in the main thread and is posted otherwise
_handle_filter_combo_change_slot ==
  /\ pc = "running"
  /\ \E new_filter_key \in FilterChoices \ {current_camera_filter_key} :
       LET cmds == IF camera_on THEN EmitCommand("request_camera_filter_change") ELSE {}
       IN /\ current_camera_filter_key' = new_filter_key
          /\ sent' = sent \cup cmds
          /\ cam' = IF \E s \in cmds : s.how = "direct"
                    THEN set_filter(cam, new_filter_key)
                    ELSE IF cmds # {}
                    THEN [cam EXCEPT !.filter_queue = Append(@, new_filter_key)]
                    ELSE cam
  /\ UNCHANGED <<resolverVars, supervisorVars, closeVars, pc, criticalError, camera_on,
                 shown, eventVars, voice_input_on, voice_output_enabled, routes, saver>>

\* the keys set_filter is called with: keys of RAW_CAMERA_FILTERS and others
FilterInputs == FilterChoices \cup {"Unknown", ""}

\* the set_filter slot runs with the given key
SetFilterStep(filter_key) ==
  /\ pc = "running"
  /\ WorkersGet(workers, "camera").worker = "CameraWorker"
  /\ cam' = [set_filter(cam, filter_key) EXCEPT !.filter_arg = filter_key]
  /\ UNCHANGED <<resolverVars, supervisorVars, closeVars, pc, criticalError, camera_on,
                 shown, contractVars>>

CameraSetFilter == \E filter_key \in FilterInputs : SetFilterStep(filter_key)

\* what the TTS and voice-input command slots leave alone
CommandFrame == <<resolverVars, supervisorVars, closeVars, pc, criticalError, camera_on,
                  shown, cam, eventVars>>

\* MainWindow.interrupt_tts_slot(), lines 2886-2892
interrupt_tts_slot ==
  /\ pc = "running"
  /\ sent' = sent \cup EmitCommand("stop_tts_signal")
  /\ UNCHANGED <<CommandFrame, voice_input_on, voice_output_enabled, routeVars>>

\* MainWindow.toggle_voice_output_slot(checked), lines 2860-2868: muting
\* calls interrupt_tts_slot
toggle_voice_output_slot(checked) ==
  /\ pc = "running"
  /\ voice_output_enabled' = checked
  /\ sent' = IF ~checked THEN sent \cup EmitCommand("stop_tts_signal") ELSE sent
  /\ UNCHANGED <<CommandFrame, voice_input_on, routeVars>>

\* lines 2870-2885 without the assignment of line 2884
toggle_voice_input_slot_keeps(checked) ==
  /\ pc = "running"
  /\ voice_input_on' = checked
  /\ IF WorkersGet(workers, "voice_listener").worker # "None"
     THEN InvokeQueued("voice_listener",
                       IF checked THEN "start_listening" ELSE "stop_listening")
     ELSE UNCHANGED sent
  /\ UNCHANGED <<CommandFrame, voice_output_enabled, routeVars>>

\* MainWindow.toggle_voice_input_slot(checked), lines 2870-2885
toggle_voice_input_slot(checked) ==
  /\ pc = "running"
  /\ IF WorkersGet(workers, "voice_listener").worker # "None"
     THEN /\ voice_input_on' = checked
          /\ InvokeQueued("voice_listener",
                          IF checked THEN "start_listening" ELSE "stop_listening")
     ELSE /\ voice_input_on' = FALSE
          /\ UNCHANGED sent
  /\ UNCHANGED <<CommandFrame, voice_output_enabled, routeVars>>

\* the body shared by the three TTS setting slots: the command is invoked
\* when the tts worker exists and has the method
ChangeTTS(member) ==
  /\ LET tts_info == WorkersGet(workers, "tts")
     IN IF tts_info.worker # "None" /\ member \in ClassAttributes("tts", tts_info.worker)
        THEN InvokeQueued("tts", member)
        ELSE UNCHANGED sent
  /\ UNCHANGED <<CommandFrame, voice_input_on, voice_output_enabled, routeVars>>

\* MainWindow.change_tts_voice_selection_slot(index), lines 2894-2913, for a
\* valid index
change_tts_voice_selection_slot ==
  /\ pc = "running"
  /\ ChangeTTS("set_voice")

\* MainWindow.change_tts_rate_slot(value), lines 2915-2926
change_tts_rate_slot ==
  /\ pc = "running"
  /\ ChangeTTS("set_rate")

\* MainWindow.change_tts_volume_slot(value), lines 2928-2939
change_tts_volume_slot ==
  /\ pc = "running"
  /\ ChangeTTS("set_volume")

-----------------------------------------------------------------------------
(* CameraWorker.run, lines 825-870, called when the camera thread starts *)

\* everything but cam and the camera thread
CameraFrame == <<resolverVars, workers, affinity, started_run, wired, lacking, cmd_wired,
                 setup_failed, setupIdx, closeVars, pc, criticalError, camera_on, shown,
                 contractVars>>

\* lines 828-841 where finished is emitted before error
CameraOpenFail_reversed(cv2_available) ==
  /\ cam' = [cam EXCEPT !.pc = "done",
                        !.cap = IF cv2_available THEN "closed" ELSE @,
                        !.events = <<"finished", "error">>,
                        !.runs = @ + 1,
                        !.context = affinity["camera"]]
  /\ thread' = [thread EXCEPT !["camera"] = "finished"]

\* lines 828-841: OpenCV is missing, or VideoCapture(...) is not opened: error
\* then finished are emitted and run() returns; finished is connected to
\* thread.quit (line 2648), so the thread ends
CameraOpenFail(cv2_available) ==
  /\ cam' = [cam EXCEPT !.pc = "done",
                        !.cap = IF cv2_available THEN "closed" ELSE @,
                        !.events = <<"error", "finished">>,
                        !.runs = @ + 1,
                        !.context = affinity["camera"]]
  /\ thread' = [thread EXCEPT !["camera"] = "finished"]

\* lines 843-847: the device is open, the flag is set and the stream announced
CameraOpened ==
  /\ cam' = [cam EXCEPT !.pc = "loop", !.cap = "open", !.acquired = TRUE,
                        !.is_running = TRUE, !.events = <<"status_update">>,
                        !.runs = @ + 1, !.context = affinity["camera"]]
  /\ UNCHANGED thread

\* run() is entered (thread.started, line 2668) and tries to open the device;
\* the connection of line 2668 is automatic and thread.started is emitted from
\* the new thread, so run() executes on the thread the worker lives in
CameraRun ==
  /\ pc = "running"
  /\ "camera" \in started_run
  /\ thread["camera"] = "running"
  /\ cam.pc = "idle"
  /\ \/ \E cv2_available \in BOOLEAN : CameraOpenFail(cv2_available)
     \/ CameraOpened
  /\ UNCHANGED CameraFrame

\* while self._is_running, line 849
CameraLoopTest ==
  /\ cam.pc = "loop"
  /\ cam' = [cam EXCEPT !.pc = IF cam.is_running THEN "read" ELSE "exit",
                        !.cause = IF cam.is_running THEN @ ELSE "stop_flag",
                        !.since_off = IF cam.off_requested /\ cam.is_running
                                      THEN @ + 1 ELSE @]
  /\ UNCHANGED <<thread, CameraFrame>>

\* one iteration, lines 850-863: a frame is read and emitted, or no frame is
\* read and the loop is left, or a call of the iteration raises and the
\* exception leaves run(), which has no try statement
CameraIteration ==
  /\ cam.pc = "read"
  /\ \E outcome \in {"frame", "no_frame", "raise"} :
       /\ outcome = "frame" => cam.frames < MaxFrames
       /\ cam' = CASE outcome = "frame" ->
                        [cam EXCEPT !.pc = "loop", !.frames = @ + 1,
                                    !.events = Append(@, "frame_ready")]
                   [] outcome = "no_frame" ->
                        [cam EXCEPT !.pc = "exit", !.is_running = FALSE,
                                    !.cause = "read_failure"]
                   [] outcome = "raise" ->
                        [cam EXCEPT !.pc = "raised", !.cause = "exception"]
  /\ UNCHANGED <<thread, CameraFrame>>

\* lines 865-870: the device is released, cap is set to None, then
\* status_update and finished are emitted; released_at is the position in
\* events of the first event that follows the release
CameraExit ==
  /\ cam.pc = "exit"
  /\ cam' = [cam EXCEPT !.pc = "done", !.cap = "None",
                        !.released_at = Len(cam.events) + 1,
                        !.events = @ \o <<"status_update", "finished">>]
  /\ thread' = [thread EXCEPT !["camera"] = "finished"]
  /\ UNCHANGED CameraFrame

-----------------------------------------------------------------------------
(* ImageSaveWorker, lines 873-953 *)

\* the frame objects save_image is given: a QPixmap, a QImage, NumPy arrays
\* of one, two and three dimensions (the last with 1, 3 or 4 channels) and
\* objects of other types; ndim and channels are 0 where they do not apply
NoFrame == [type |-> "none", ndim |-> 0, channels |-> 0]

Frames(numpy) ==
  {[type |-> t, ndim |-> 0, channels |-> 0] : t \in {"QPixmap", "QImage", "NoneType", "str"}}
  \cup (IF numpy
        THEN {[type |-> "ndarray", ndim |-> 1, channels |-> 0],
              [type |-> "ndarray", ndim |-> 2, channels |-> 0]}
             \cup {[type |-> "ndarray", ndim |-> 3, channels |-> c] : c \in {1, 3, 4}}
        ELSE {})

\* what the library calls of one save_image call do: each returns or raises
LibraryOutcomes ==
  [imwrite : {"ok", "raise"}, cvtColor : {"ok", "raise"},
   fromarray : {"ok", "raise"}, direct : {"ok", "raise"}, save : {"ok", "raise"}]

\* the imaging flags of lines 51-74 and the last save_image call: its frame,
\* what the libraries did, the events it emitted and whether an exception
\* left it
NoSaver == [PIL_AVAILABLE |-> TRUE, CV2_AVAILABLE |-> TRUE, NUMPY_AVAILABLE |-> TRUE,
            frame |-> NoFrame, lib |-> [imwrite |-> "ok", cvtColor |-> "ok",
                                        fromarray |-> "ok", direct |-> "ok", save |-> "ok"],
            events |-> <<>>, raised |-> FALSE]

\* any combination of the three libraries may be installed
Savers ==
  {[NoSaver EXCEPT !.PIL_AVAILABLE = p, !.CV2_AVAILABLE = c, !.NUMPY_AVAILABLE = n] :
     p \in BOOLEAN, c \in BOOLEAN, n \in BOOLEAN}

\* the Pillow branch of lines 909-936: "done" when the image was written,
\* "error" when the branch emitted error and returned, "raise" when an
\* exception left it
SaveWithPillow(s, frame_object, lib) ==
  LET img_to_save_pil ==
        IF frame_object.ndim = 3 /\ frame_object.channels = 3
        THEN LET first == IF s.CV2_AVAILABLE
                          THEN IF lib.cvtColor = "ok" THEN lib.fromarray ELSE "raise"
                          ELSE lib.fromarray
             IN IF first = "ok" THEN "image" ELSE IF lib.direct = "ok" THEN "image" ELSE "raise"
        ELSE IF frame_object.ndim = 2
        THEN IF lib.fromarray = "ok" THEN "image" ELSE "raise"
        ELSE "unsupported"
  IN CASE img_to_save_pil = "unsupported" -> "error"
       [] img_to_save_pil = "raise" -> "raise"
       [] OTHER -> IF lib.save = "ok" THEN "done" ELSE "raise"

\* the try block of lines 894-945 up to the emit of line 947
SaveAttempt(s, frame_object, lib) ==
  CASE frame_object.type \in {"QPixmap", "QImage"} -> "done"
    [] s.NUMPY_AVAILABLE /\ frame_object.type = "ndarray" ->
         IF s.CV2_AVAILABLE
         THEN IF lib.imwrite = "ok" THEN "done" ELSE "raise"
         ELSE IF s.PIL_AVAILABLE
         THEN SaveWithPillow(s, frame_object, lib)
         ELSE "error"
    [] OTHER -> "error"

\* a save_image without the except clause of lines 950-953
save_image_uncaught(s, frame_object, lib) ==
  LET r == IF ~s.PIL_AVAILABLE /\ ~s.CV2_AVAILABLE THEN "error"
           ELSE SaveAttempt(s, frame_object, lib)
  IN [s EXCEPT !.frame = frame_object, !.lib = lib,
               !.events = CASE r = "done" -> <<"image_saved", "status_update">>
                            [] r = "error" -> <<"error">>
                            [] OTHER -> <<>>,
               !.raised = (r = "raise")]

\* ImageSaveWorker.save_image(frame_object, filename), lines 884-953
save_image(s, frame_object, lib) ==
  LET r == IF ~s.PIL_AVAILABLE /\ ~s.CV2_AVAILABLE THEN "error"
           ELSE SaveAttempt(s, frame_object, lib)
  IN [s EXCEPT !.frame = frame_object, !.lib = lib,
               !.events = CASE r = "done" -> <<"image_saved", "status_update">>
                            [] r = "error" -> <<"error">>
                            [] OTHER -> <<"error">>,
               !.raised = FALSE]

\* the save_image slot runs on the image-save worker for some frame
SaveImage ==
  /\ pc = "running"
  /\ WorkersGet(workers, "image_save").worker = "ImageSaveWorker"
  /\ \E frame_object \in Frames(saver.NUMPY_AVAILABLE) : \E lib \in LibraryOutcomes :
       saver' = save_image(saver, frame_object, lib)
  /\ UNCHANGED <<resolverVars, supervisorVars, closeVars, pc, criticalError, camera_on,
                 shown, cam, eventVars, sent, voice_input_on, voice_output_enabled,
                 routes, current_camera_filter_key>>

-----------------------------------------------------------------------------
(* TTSWorker_Dummy, lines 493-553, running on the event loop of its thread *)

\* a TTSWorker_Dummy after __init__: the single-shot timers not yet fired in
\* the order they were created, each with the time left until it expires (in
\* units of 100 ms), the events emitted so far and the commands received
NoTTS == [timers |-> <<>>, events |-> <<>>, speaks |-> 0, stops |-> 0,
          words |-> <<>>]

\* what the TTS worker's steps leave alone
TTSFrame == <<resolverVars, supervisorVars, closeVars, pc, criticalError, camera_on,
              shown, cam, fb, issued, commandVars>>

\* the fallback workers held in fb
Fallbacks == {"emotion", "voice_listener", "nlp"}

\* a fallback worker after __init__, lines 302-306 and 564-572: timers is the
\* number of single-shot timers of start_listening not yet fired, vad the
\* arguments of the vad_status_changed events emitted so far and posted the
\* slot calls invokeMethod has queued for the worker and that have not run
NoFallback == [events |-> <<>>, is_listening |-> FALSE, language |-> "en-US", timers |-> 0,
               vad |-> <<>>, posted |-> <<>>]

\* the commands run so far
Issued == issued + tts.speaks + tts.stops

\* signal emission, lines 2659-2664: the events a worker emits, numbered from
\* k + 1 in emission order, that are connected to a MainWindow handler. The
\* connections are automatic ones: a worker living in its own thread has
\* them posted to the main thread's queue, one living in the main thread has
\* the handler called at once.
Emit(c, k, names) ==
  LET all == [i \in 1..Len(names) |-> [from |-> c, name |-> names[i], n |-> k + i]]
      Connected(e) == e.name \in wired[c]
      es == SelectSeq(all, Connected)
  IN IF affinity[c] = "own"
     THEN /\ mq' = mq \o es
          /\ UNCHANGED handled
     ELSE /\ handled' = [handled EXCEPT ![c] = @ \o [i \in 1..Len(es) |-> es[i].n]]
          /\ UNCHANGED mq

\* the events of e2 that are not in its prefix e1
NewEvents(e1, e2) == SubSeq(e2, Len(e1) + 1, Len(e2))

\* delay_ms_per_word = 200, line 519, in units of 100 ms
DelayPerWord == 2

\* timers of a speak call whose speech_finished timer expires before the words'
SpeakTimers_finished_first(utt, n) ==
  [i \in 1..(n + 1) |->
     IF i <= n
     THEN [due |-> (i - 1) * DelayPerWord + DelayPerWord,
           name |-> "speech_word_boundary", utt |-> utt, word |-> i]
     ELSE [due |-> DelayPerWord \div 2,
           name |-> "speech_finished", utt |-> utt, word |-> 0]]

\* the timers one speak call creates for a text of n words, lines 520-532:
\* word i (from 0) after i * 200 + 100 ms, speech_finished after
\* n * 200 + 200 ms
SpeakTimers(utt, n) ==
  [i \in 1..(n + 1) |->
     IF i <= n
     THEN [due |-> (i - 1) * DelayPerWord + DelayPerWord \div 2,
           name |-> "speech_word_boundary", utt |-> utt, word |-> i]
     ELSE [due |-> n * DelayPerWord + DelayPerWord,
           name |-> "speech_finished", utt |-> utt, word |-> 0]]

\* speak(text), lines 512-532, for the utt-th text, of n words
speak(utt, n) ==
  [tts EXCEPT !.events = Append(@, [name |-> "speech_started", utt |-> utt, word |-> 0]),
              !.timers = @ \o SpeakTimers(utt, n),
              !.speaks = utt,
              !.words = Append(@, n)]

\* stop_speaking(), lines 534-538: speech_finished("(Dummy TTS Speech
\* Interrupted)") is emitted, written as utterance 0; no timer is touched
stop_speaking ==
  [tts EXCEPT !.events = Append(@, [name |-> "speech_finished", utt |-> 0, word |-> 0]),
              !.stops = @ + 1]

\* the speak slot runs for a text of n words
TTSSpeak ==
  /\ pc = "running"
  /\ Issued < MaxCommands
  /\ \E n \in 0..MaxWords :
       /\ tts' = speak(tts.speaks + 1, n)
  /\ Emit("tts", Len(tts.events), <<"speech_started">>)
  /\ UNCHANGED TTSFrame

\* the stop_speaking slot runs
TTSStopSpeaking ==
  /\ pc = "running"
  /\ Issued < MaxCommands
  /\ tts' = stop_speaking
  /\ Emit("tts", Len(tts.events), <<"speech_finished">>)
  /\ UNCHANGED TTSFrame

\* the timers that have expired
DueTimers == {i \in 1..Len(tts.timers) : tts.timers[i].due <= 0}

\* the expired timer the event loop fires next: the one with the earliest
\* expiry, the first created among timers that expire together
fire_next ==
  CHOOSE i \in DueTimers :
    \A j \in DueTimers :
      \/ tts.timers[i].due < tts.timers[j].due
      \/ tts.timers[i].due = tts.timers[j].due /\ i <= j

\* QTimer.singleShot: an expired timer fires and its lambda emits the signal
TTSTimerFire ==
  /\ DueTimers # {}
  /\ LET i == fire_next
         t == tts.timers[i]
     IN /\ tts' = [tts EXCEPT
                  !.events = Append(@, [name |-> t.name, utt |-> t.utt, word |-> t.word]),
                  !.timers = SubSeq(@, 1, i - 1) \o SubSeq(@, i + 1, Len(@))]
        /\ Emit("tts", Len(tts.events), <<t.name>>)
  /\ UNCHANGED TTSFrame

\* 100 ms pass on the worker's thread while timers are pending; its event loop
\* fires expired timers first
TTSTick ==
  /\ tts.timers # <<>>
  /\ DueTimers = {}
  /\ tts' = [tts EXCEPT !.timers = [i \in 1..Len(@) |-> [@[i] EXCEPT !.due = @ - 1]]]
  /\ UNCHANGED <<TTSFrame, mq, handled>>

-----------------------------------------------------------------------------
(* The other fallback workers, lines 296-320, 419-441 and 556-647, and the *)
(* delivery of worker events to MainWindow                                 *)

\* what the steps of the workers in fb leave alone
FallbackFrame == <<resolverVars, supervisorVars, closeVars, pc, criticalError, camera_on,
                   shown, cam, commandVars>>

\* the languages given to set_language
Languages == {"en-US", "fr-FR"}

\* a stop() that flips the flag instead of clearing it
stop_flips(w) == [w EXCEPT !.is_running = ~@]

\* Worker.stop, lines 733-739: _is_running = False, nothing is emitted
stop(w) == [w EXCEPT !.is_running = FALSE]

\* BaseWorkerDummy.stop, lines 318-320: a log line, no state, no event
BaseWorkerDummy_stop(w) == w

\* BaseWorkerDummy.shutdown, lines 313-316
shutdown(w) == [w EXCEPT !.events = Append(@, "finished")]

\* EmotionWorker_Dummy.analyze_text_emotion, lines 431-441: one
\* emotion_detected whatever the text
analyze_text_emotion(w) == [w EXCEPT !.events = Append(@, "emotion_detected")]

\* start_listening that announces the start with an event of another capability
start_listening_foreign(w) ==
  IF ~w.is_listening
  THEN [w EXCEPT !.is_listening = TRUE,
                 !.events = @ \o <<"speech_started", "vad_status_changed">>,
                 !.vad = Append(@, TRUE),
                 !.timers = @ + 1]
  ELSE w

\* start_listening without the test of line 583
start_listening_always(w) ==
  [w EXCEPT !.is_listening = TRUE,
            !.events = @ \o <<"listening_started_signal", "vad_status_changed">>,
            !.vad = Append(@, TRUE),
            !.timers = @ + 1]

\* VoiceListenerWorker_Dummy.start_listening, lines 579-588
start_listening(w) ==
  IF ~w.is_listening
  THEN [w EXCEPT !.is_listening = TRUE,
                 !.events = @ \o <<"listening_started_signal", "vad_status_changed">>,
                 !.vad = Append(@, TRUE),
                 !.timers = @ + 1]
  ELSE w

\* a timer callback that emits the recognition whether listening or not
_simulate_recognition_always(w) ==
  [w EXCEPT !.events = @ \o <<"text_recognized", "vad_status_changed">>,
            !.vad = Append(@, FALSE),
            !.timers = @ - 1]

\* VoiceListenerWorker_Dummy._simulate_recognition_if_active, lines 590-596,
\* run by the single-shot timer of start_listening
_simulate_recognition_if_active(w) ==
  IF w.is_listening
  THEN [w EXCEPT !.events = @ \o <<"text_recognized", "vad_status_changed">>,
                 !.vad = Append(@, FALSE),
                 !.timers = @ - 1]
  ELSE [w EXCEPT !.timers = @ - 1]

\* VoiceListenerWorker_Dummy.stop_listening, lines 598-605
stop_listening(w) ==
  IF w.is_listening
  THEN [w EXCEPT !.is_listening = FALSE,
                 !.events = @ \o <<"vad_status_changed", "listening_stopped_signal">>,
                 !.vad = Append(@, FALSE)]
  ELSE w

\* VoiceListenerWorker_Dummy.set_language, lines 607-611
set_language(w, lang) == [w EXCEPT !.language = lang]

\* NLPWorker_Dummy.process_user_input, lines 628-647: one processing_complete
process_user_input(w) == [w EXCEPT !.events = Append(@, "processing_complete")]

\* the methods a caller can run on a fallback worker
Methods(c) == Slots(c) \cup {"shutdown", "stop"}

\* the method named member run on the fallback worker w of capability c
Call(c, member, w, arg) ==
  CASE member = "analyze_text_emotion" -> analyze_text_emotion(w)
    [] member = "start_listening" -> start_listening(w)
    [] member = "stop_listening" -> stop_listening(w)
    [] member = "set_language" -> set_language(w, arg)
    [] member = "process_user_input" -> process_user_input(w)
    [] member = "shutdown" -> shutdown(w)
    [] member = "stop" -> BaseWorkerDummy_stop(w)
    [] OTHER -> w

\* the worker of capability c is set up and is the fallback class
IsFallback(c) ==
  /\ pc = "running"
  /\ c \in WorkerNames(workers)
  /\ IsDummyName(WorkersGet(workers, c).worker)

\* a method of a fallback worker runs
FallbackCommand ==
  /\ Issued < MaxCommands
  /\ \E c \in Fallbacks : \E member \in Methods(c) :
     \E arg \in IF member = "set_language" THEN Languages ELSE {"en-US"} :
       LET w == Call(c, member, fb[c], arg)
       IN /\ IsFallback(c)
          /\ fb' = [fb EXCEPT ![c] = w]
          /\ Emit(c, Len(fb[c].events), NewEvents(fb[c].events, w.events))
  /\ issued' = issued + 1
  /\ UNCHANGED <<FallbackFrame, tts>>

\* the single-shot timer of start_listening fires
VoiceTimerFire ==
  /\ IsFallback("voice_listener")
  /\ fb["voice_listener"].timers > 0
  /\ LET w == _simulate_recognition_if_active(fb["voice_listener"])
     IN /\ fb' = [fb EXCEPT !["voice_listener"] = w]
        /\ Emit("voice_listener", Len(fb["voice_listener"].events),
                NewEvents(fb["voice_listener"].events, w.events))
  /\ UNCHANGED <<FallbackFrame, tts, issued>>

\* the events of the TTSWorker_Dummy methods that set no timer: lines 504-510
\* (initialize_engine), 540-553 (set_voice, set_rate, set_volume: a log line)
\* and the inherited shutdown and stop
TTSEvents(member) ==
  CASE member = "initialize_engine" -> <<"available_voices_signal">>
    [] member = "shutdown" -> <<"finished">>
    [] OTHER -> <<>>

\* a method of the fallback TTS worker other than speak and stop_speaking runs
TTSCommand ==
  /\ IsFallback("tts")
  /\ Issued < MaxCommands
  /\ \E member \in Methods("tts") \ {"speak", "stop_speaking"} :
       /\ tts' = [tts EXCEPT !.events =
                    @ \o [i \in 1..Len(TTSEvents(member)) |->
                            [name |-> TTSEvents(member)[i], utt |-> 0, word |-> 0]]]
       /\ Emit("tts", Len(tts.events), TTSEvents(member))
  /\ issued' = issued + 1
  /\ UNCHANGED <<FallbackFrame, fb>>

\* stop() runs on an internal worker
WorkerStop ==
  /\ pc = "running"
  /\ Issued < MaxCommands
  /\ "camera" \in WorkerNames(workers)
  /\ WorkersGet(workers, "camera").worker = "CameraWorker"
  /\ cam' = [stop(cam) EXCEPT !.stop_requested = @ \/ thread["camera"] = "running"]
  /\ issued' = issued + 1
  /\ UNCHANGED <<resolverVars, supervisorVars, closeVars, pc, criticalError, camera_on,
                 shown, commandVars, tts, fb, mq, handled>>

\* a queue that hands over its newest entry first
next_event_newest(q) == Len(q)

\* the main thread's event loop takes posted events in the order they were posted
next_event(q) == 1

\* the main thread delivers a queued event: the connected MainWindow handler runs
HandleEvent ==
  /\ pc = "running"
  /\ mq # <<>>
  /\ LET i == next_event(mq)
     IN /\ handled' = [handled EXCEPT ![mq[i].from] = Append(@, mq[i].n)]
        /\ mq' = SubSeq(mq, 1, i - 1) \o SubSeq(mq, i + 1, Len(mq))
  /\ UNCHANGED <<FallbackFrame, tts, fb, issued>>

\* the clicks of the voice-input button a run makes
MaxToggles == 4

\* MainWindow.handle_voice_listener_started_ui, lines 3082-3088: the new
\* value of voice_input_on
handle_voice_listener_started_ui(on) == TRUE

\* a stopped handler that leaves the attribute as it is
handle_voice_listener_stopped_ui_keeps(on) == on

\* MainWindow.handle_voice_listener_stopped_ui, lines 3090-3096
handle_voice_listener_stopped_ui(on) == FALSE

\* voice_input_on after the handlers connected to the listener's events names
\* have run in emission order, starting from on; the other handlers of the
\* listener's events (lines 3067-3080 and 3098-3108) do not write it
RECURSIVE ListenerHandlers(_, _)
ListenerHandlers(on, names) ==
  IF names = <<>> THEN on
  ELSE LET e == Head(names)
           next == CASE e \notin wired["voice_listener"] -> on
                     [] e = "listening_started_signal" -> handle_voice_listener_started_ui(on)
                     [] e = "listening_stopped_signal" -> handle_voice_listener_stopped_ui(on)
                     [] OTHER -> on
       IN ListenerHandlers(next, Tail(names))

\* voice_input_btn.clicked (line 1804) runs toggle_voice_input_slot(checked),
\* lines 2870-2885, with the fallback listener: the slot call that
\* invokeMethod queues waits in the event loop of the worker's thread
VoiceInputClick(checked) ==
  /\ pc = "running"
  /\ IsFallback("voice_listener")
  /\ issued < MaxToggles
  /\ voice_input_on' = checked
  /\ LET member == IF checked THEN "start_listening" ELSE "stop_listening"
     IN /\ InvokeQueued("voice_listener", member)
        /\ fb' = [fb EXCEPT !["voice_listener"].posted =
                     IF Send("queued", "voice_listener", member) \in sent'
                     THEN Append(@, member) ELSE @]
  /\ issued' = issued + 1
  /\ UNCHANGED <<resolverVars, supervisorVars, closeVars, pc, criticalError, camera_on,
                 shown, cam, tts, mq, handled, voice_output_enabled, routeVars>>

\* the event loop runs the oldest queued slot call of the fallback listener;
\* the handlers connected to the events it emits run at the emit, the worker
\* living in the main thread
ListenerInvoke ==
  /\ IsFallback("voice_listener")
  /\ affinity["voice_listener"] = "main"
  /\ fb["voice_listener"].posted # <<>>
  /\ LET w0 == fb["voice_listener"]
         w == [Call("voice_listener", Head(w0.posted), w0, "en-US")
                 EXCEPT !.posted = Tail(@)]
         new == NewEvents(w0.events, w.events)
     IN /\ fb' = [fb EXCEPT !["voice_listener"] = w]
        /\ Emit("voice_listener", Len(w0.events), new)
        /\ voice_input_on' = ListenerHandlers(voice_input_on, new)
  /\ UNCHANGED <<resolverVars, supervisorVars, closeVars, pc, criticalError, camera_on,
                 shown, cam, tts, issued, sent, voice_output_enabled, routeVars>>

-----------------------------------------------------------------------------
(* MainWindow handlers of worker events, lines 2941-3198 *)

\* MainWindow.handle_speech_started, lines 2989-2997: the text of the
\* connection status label, the robot widget's speaking state and the stop
\* button following it
handle_speech_started(label) == "Speaking..."

\* MainWindow.handle_speech_finished, lines 3006-3014
handle_speech_finished(label) == "Idle"

\* the speaking indicator after MainWindow has handled the first k events of
\* the tts worker delivered to it, "Idle" at the start (line 1681)
RECURSIVE SpeakingLabel(_)
SpeakingLabel(k) ==
  IF k = 0 THEN "Idle"
  ELSE LET e == tts.events[handled["tts"][k]]
           before == SpeakingLabel(k - 1)
       IN CASE e.name = "speech_started" -> handle_speech_started(before)
            [] e.name = "speech_finished" -> handle_speech_finished(before)
            [] OTHER -> before

\* the name a worker passes to Worker.__init__ or BaseWorkerDummy.__init__
\* (lines 427, 502, 568, 621, 772 and 882) and reports its errors under
worker_name(class) ==
  CASE class = "EmotionWorker_Dummy" -> "EmotionWorkerDummy"
    [] class = "TTSWorker_Dummy" -> "TTSWorkerDummy"
    [] class = "VoiceListenerWorker_Dummy" -> "VoiceListenerWorkerDummy"
    [] class = "NLPWorker_Dummy" -> "NLPWorkerDummy"
    [] OTHER -> class

\* the two toggle attributes of MainWindow the error handlers write
Toggles == [camera_on |-> camera_on, voice_input_on |-> voice_input_on]

\* the names the worker classes of this file report their errors under
ReportedNames ==
  {worker_name(class) : class \in {"EmotionWorker_Dummy", "TTSWorker_Dummy",
                                    "VoiceListenerWorker_Dummy", "NLPWorker_Dummy",
                                    "CameraWorker", "ImageSaveWorker"}}

\* the branch of lines 3191-3196 a reported name takes
error_branch(name) ==
  IF Lower(name) = "camera" THEN "camera"
  ELSE IF Contains(Lower(name), "listener") THEN "listener"
  ELSE "none"

\* error_branch of every reported name
ErrorBranch == [name \in ReportedNames |-> error_branch(name)]

\* lines 3186-3198 without the assignment of the listener branch
handle_worker_error_keeps(name, t) ==
  IF ErrorBranch[name] = "camera" THEN [t EXCEPT !.camera_on = FALSE] ELSE t

\* MainWindow.handle_worker_error(worker_name, error_message), lines 3182-3198:
\* the toggle attributes after the call
handle_worker_error(name, t) ==
  CASE ErrorBranch[name] = "camera" -> [t EXCEPT !.camera_on = FALSE]
    [] ErrorBranch[name] = "listener" -> [t EXCEPT !.voice_input_on = FALSE]
    [] OTHER -> t

\* one handled worker event, kept in routes until the next event is handled
\* (a handler run inside it adds its own): whether it carries a text and which, the commands
\* the handler issued, in order, voice_output_enabled at that time and the
\* toggle attributes before and after the handler
Route(event, from, has_text, text, cmds, before, after) ==
  [event |-> event, from |-> from, has_text |-> has_text, text |-> text, cmds |-> cmds,
   enabled |-> voice_output_enabled, before |-> before, after |-> after]

\* signal.emit(text) of a MainWindow command signal, lines 3079-3080: the
\* connection of lines 2683-2691 is automatic, so the slot of a worker living
\* in the main thread runs inside the emit, and the call is posted to a worker
\* living in its own thread; a signal nothing is connected to reaches nobody
EmitSignal(signal, text) ==
  LET conns == {x \in cmd_wired : x.signal = signal}
  IN IF conns = {}
     THEN [signal |-> signal, text |-> text, to |-> "nobody", member |-> "",
           how |-> "unconnected"]
     ELSE LET x == CHOOSE y \in conns : TRUE
          IN [signal |-> signal, text |-> text, to |-> x.to, member |-> x.slot,
              how |-> IF affinity[x.to] = "main" THEN "direct" ELSE "queued"]

\* the reply used when the response has no text_to_speak key, line 2945
DefaultResponse == "I have no specific response."

\* lines 2963-2972 without the test of voice_output_enabled
SpeakCommands_always(has_key, text, enabled) ==
  LET text_to_speak == IF has_key THEN text ELSE DefaultResponse
      tts_info == WorkersGet(workers, "tts")
  IN IF /\ text_to_speak # ""
        /\ tts_info.worker # "None"
        /\ "speak" \in ClassAttributes("tts", tts_info.worker)
     THEN {<<[signal |-> "invokeMethod", text |-> text_to_speak, to |-> "tts",
              member |-> "speak", how |-> IF queued THEN "queued" ELSE "failed"]>> :
             queued \in invokeMethod("tts", tts_info.worker, "speak")}
     ELSE {<<>>}

\* the speak commands of handle_nlp_result, lines 2945 and 2963-2972: the text
\* is response_dict.get("text_to_speak", default), and speak is invoked when
\* voice output is enabled, the text is not empty and the tts worker exists
\* and has the method
SpeakCommands(has_key, text, enabled) ==
  LET text_to_speak == IF has_key THEN text ELSE DefaultResponse
      tts_info == WorkersGet(workers, "tts")
  IN IF /\ enabled
        /\ text_to_speak # ""
        /\ tts_info.worker # "None"
        /\ "speak" \in ClassAttributes("tts", tts_info.worker)
     THEN {<<[signal |-> "invokeMethod", text |-> text_to_speak, to |-> "tts",
              member |-> "speak", how |-> IF queued THEN "queued" ELSE "failed"]>> :
             queued \in invokeMethod("tts", tts_info.worker, "speak")}
     ELSE {<<>>}

\* what the event handlers leave alone
RoutingFrame == <<resolverVars, supervisorVars, closeVars, pc, criticalError, shown, cam,
                  tts, mq, sent, voice_output_enabled, current_camera_filter_key, saver>>

\* the texts a recognition result carries
Texts == {"", " ", "hi", " hi "}

\* the text_to_speak of the response NLPWorker_Dummy emits, lines 629-637
DummyReply == "NLP Dummy reply"

\* MainWindow.handle_recognized_voice(text, confidence), lines 3066-3080, for
\* a text_recognized event. A fallback nlp or emotion worker that lives in the
\* main thread runs its slot inside the emit: process_user_input emits
\* processing_complete, whose handler handle_nlp_result then runs inside that
\* emit as well, before handle_recognized_voice goes on
handle_recognized_voice ==
  /\ pc = "running"
  /\ "text_recognized" \in wired["voice_listener"]
  /\ \E text \in Texts :
     LET blank == Strip(text) = ""
         nlp == EmitSignal("start_nlp_processing", text)
         emo == EmitSignal("request_emotion_analysis", text)
         cmds == IF blank THEN <<>> ELSE <<nlp, emo>>
         nlp_inline == ~blank /\ nlp.how = "direct" /\ IsFallback("nlp")
         emo_inline == ~blank /\ emo.how = "direct" /\ IsFallback("emotion")
         nlp_w == process_user_input(fb["nlp"])
         emo_w == analyze_text_emotion(fb["emotion"])
         result_handled == nlp_inline /\ "processing_complete" \in wired["nlp"]
     IN \E spoken \in (IF result_handled
                      THEN SpeakCommands(TRUE, DummyReply, voice_output_enabled)
                      ELSE {<<>>}) :
          /\ (nlp_inline \/ emo_inline) => Issued < MaxCommands
          /\ issued' = issued + (IF nlp_inline \/ emo_inline THEN 1 ELSE 0)
          /\ routes' = <<Route("text_recognized", "voice_listener", TRUE, text, cmds, Toggles, Toggles)>>
                \o (IF result_handled
                    THEN <<Route("processing_complete", "nlp", TRUE, DummyReply, spoken,
                                 Toggles, Toggles)>>
                    ELSE <<>>)
          /\ fb' = [fb EXCEPT !["nlp"] = IF nlp_inline THEN nlp_w ELSE @,
                              !["emotion"] = IF emo_inline THEN emo_w ELSE @]
          /\ handled' = [handled EXCEPT
                           !["nlp"] = IF result_handled
                                      THEN Append(@, Len(nlp_w.events)) ELSE @,
                           !["emotion"] = IF emo_inline /\ "emotion_detected" \in wired["emotion"]
                                          THEN Append(@, Len(emo_w.events)) ELSE @]
  /\ UNCHANGED <<RoutingFrame, camera_on, voice_input_on>>

\* MainWindow.handle_nlp_result(response_dict), lines 2941-2972, for a
\* processing_complete event whose response has a text_to_speak key or not
handle_nlp_result ==
  /\ pc = "running"
  /\ "processing_complete" \in wired["nlp"]
  /\ \E has_key \in BOOLEAN : \E text \in (IF has_key THEN {"", "hello"} ELSE {""}) :
     \E spoken \in SpeakCommands(has_key, text, voice_output_enabled) :
       routes' = <<Route("processing_complete", "nlp", has_key, text, spoken,
                         Toggles, Toggles)>>
  /\ UNCHANGED <<RoutingFrame, camera_on, voice_input_on, issued, fb, handled>>

\* MainWindow.handle_listening_error(error_type, message), lines 3110-3116
handle_listening_error ==
  /\ pc = "running"
  /\ "listening_error" \in wired["voice_listener"]
  /\ voice_input_on' = FALSE
  /\ routes' = <<Route("listening_error", "voice_listener", FALSE, "", <<>>, Toggles,
                        [Toggles EXCEPT !.voice_input_on = FALSE])>>
  /\ UNCHANGED <<RoutingFrame, camera_on, issued, fb, handled>>

\* an error event of a worker class of this file is handled: the worker emits
\* error(self.worker_name, message), which is connected to handle_worker_error;
\* the camera's is the one run() emits at lines 830 and 839
HandleWorkerError ==
  /\ pc = "running"
  /\ \E c \in Capabilities :
       /\ "error" \in wired[c]
       /\ IsDummyName(WorkersGet(workers, c).worker) \/ c \in {"camera", "image_save"}
       /\ c = "camera" => InList("error", cam.events)
       /\ LET after == handle_worker_error(worker_name(WorkersGet(workers, c).worker), Toggles)
          IN /\ camera_on' = after.camera_on
             /\ voice_input_on' = after.voice_input_on
             /\ routes' = <<Route("error", c, FALSE, "", <<>>, Toggles, after)>>
  /\ UNCHANGED <<RoutingFrame, issued, fb, handled>>

-----------------------------------------------------------------------------
(* Shutdown protocol: MainWindow.closeEvent, lines 3207-3279 *)

NoCur == [name |-> "", worker |-> FALSE, request |-> "none", invoked |-> FALSE,
          shutdown_ran |-> FALSE, running |-> FALSE,
          quit |-> FALSE, ended |-> FALSE, waited |-> "no", terminated |-> FALSE,
          grace |-> "no"]

\* hasattr(worker_instance, 'shutdown') / hasattr(worker_instance, 'stop'),
\* lines 3229-3236: the workers of this file define both; what a real external
\* class defines is not known here
RequestChoices(c, class) ==
  IF IsDummyName(class) \/ c \in {"camera", "image_save"}
  THEN {"shutdown"}
  ELSE {"shutdown", "stop", "none"}

\* the loop moves on to the next item of self.workers.items()
CloseAdvance ==
  /\ closeIdx' = closeIdx + 1
  /\ closeStep' = IF closeIdx + 1 > Len(workers) THEN "finish" ELSE "request"

\* closeEvent is entered: the appearance updates are stopped and the loop starts
CloseBegin ==
  /\ pc = "running"
  /\ pc' = "closing"
  /\ closeIdx' = 1
  /\ closeStep' = IF Len(workers) = 0 THEN "finish" ELSE "request"
  /\ cur' = NoCur
  /\ trace' = <<>>
  /\ UNCHANGED <<workerVars, resolverVars, supervisorVars, waits, stuck, accepted, criticalError,
                 camera_on, shown>>

\* lines 3224-3242 for the current handle: the queued shutdown (or stop)
\* request, then thread.quit() when the thread is running
CloseRequestQuit(request, queued) ==
  LET h == workers[closeIdx]
      running == h.thread /\ thread[h.name] = "running"
  IN /\ cur' = [NoCur EXCEPT !.name = h.name, !.worker = (h.worker # "None"),
                             !.request = request, !.invoked = queued,
                             !.running = running, !.quit = running]
     /\ trace' = (IF request = "none" THEN <<>> ELSE <<request>>)
                   \o (IF running THEN <<"quit">> ELSE <<>>)
     /\ IF running THEN closeStep' = "wait" /\ UNCHANGED closeIdx ELSE CloseAdvance

CloseRequest ==
  /\ pc = "closing"
  /\ closeStep = "request"
  /\ \E request \in (IF workers[closeIdx].worker = "None" THEN {"none"}
                     ELSE RequestChoices(workers[closeIdx].name, workers[closeIdx].worker)) :
     \E queued \in (IF request = "none" THEN {FALSE}
                     ELSE invokeMethod(workers[closeIdx].name, workers[closeIdx].worker,
                                       request)) :
       CloseRequestQuit(request, queued)
  /\ UNCHANGED <<workerVars,
                 resolverVars, supervisorVars, waits, stuck, accepted, pc, criticalError,
                 camera_on, shown>>

\* the queued shutdown() call is taken from the event queue of the worker's
\* own thread while that thread's event loop still runs, and shutdown() emits
\* finished (lines 313-316 and 742-749); a worker that lives on the main
\* thread gets its queued call only after closeEvent has returned
ShutdownDeliver ==
  /\ pc = "closing"
  /\ closeStep = "wait"
  /\ cur.invoked /\ cur.request = "shutdown" /\ ~cur.shutdown_ran
  /\ affinity[cur.name] = "own"
  /\ thread[cur.name] = "running"
  /\ cur' = [cur EXCEPT !.shutdown_ran = TRUE]
  /\ UNCHANGED <<workerVars,
                 resolverVars, supervisorVars, closeIdx, closeStep, trace, waits, stuck,
                 accepted, pc, criticalError, camera_on, shown>>

\* the thread's event loop has left exec() after quit(): the thread ends
ThreadFinish ==
  /\ pc = "closing"
  /\ closeStep = "wait"
  /\ thread[cur.name] = "running"
  /\ thread' = [thread EXCEPT ![cur.name] = "finished"]
  /\ UNCHANGED <<workerVars, resolverVars, workers, affinity, started_run, wired, lacking, cmd_wired,
                 setup_failed, setupIdx, closeVars, pc, criticalError, camera_on, shown>>

\* the wait that reports a timeout whatever the thread did
CloseWaitResult_timeout(finished) == "timeout"

\* thread.wait(2500), line 3243: True when the thread has finished
CloseWaitResult(finished) == IF finished THEN "ok" ELSE "timeout"

CloseWait ==
  /\ pc = "closing"
  /\ closeStep = "wait"
  /\ LET r == CloseWaitResult(thread[cur.name] = "finished")
     IN /\ cur' = [cur EXCEPT !.waited = r, !.ended = (thread[cur.name] = "finished")]
        /\ trace' = Append(trace, "wait")
        /\ waits' = waits + 1
        /\ IF r = "ok" THEN CloseAdvance
           ELSE closeStep' = "terminate" /\ UNCHANGED closeIdx
  /\ UNCHANGED <<workerVars, resolverVars, supervisorVars, stuck, accepted, pc, criticalError,
                 camera_on, shown>>

\* thread.terminate(), line 3245
CloseTerminate ==
  /\ pc = "closing"
  /\ closeStep = "terminate"
  /\ cur' = [cur EXCEPT !.terminated = TRUE]
  /\ trace' = Append(trace, "terminate")
  /\ closeStep' = "grace"
  /\ UNCHANGED <<workerVars, resolverVars, supervisorVars, closeIdx, waits, stuck, accepted, pc,
                 criticalError, camera_on, shown>>

\* the grace wait that goes back to terminate() when the thread has not ended
CloseGraceWait_retry ==
  /\ pc = "closing"
  /\ closeStep = "grace"
  /\ \E ended \in BOOLEAN :
       /\ ended \/ thread[cur.name] = "finished" \/ Cardinality(stuck) < MaxTerminationFailures
       /\ IF ended \/ thread[cur.name] = "finished"
          THEN /\ thread' = [thread EXCEPT ![cur.name] = "finished"]
               /\ cur' = [cur EXCEPT !.grace = "ok"]
               /\ UNCHANGED stuck
               /\ CloseAdvance
          ELSE /\ stuck' = stuck \cup {cur.name}
               /\ cur' = [cur EXCEPT !.grace = "timeout"]
               /\ UNCHANGED thread
               /\ closeStep' = "terminate" /\ UNCHANGED closeIdx
  /\ trace' = Append(trace, "grace_wait")
  /\ waits' = waits + 1
  /\ UNCHANGED <<workerVars, resolverVars, workers, affinity, started_run, wired, lacking, cmd_wired,
                 setup_failed, setupIdx, accepted, pc, criticalError, camera_on, shown>>

\* thread.wait(1000), line 3246: the terminated thread has ended, or it has
\* not (termination is not guaranteed to take effect)
CloseGraceWait ==
  /\ pc = "closing"
  /\ closeStep = "grace"
  /\ \E ended \in BOOLEAN :
       /\ ended \/ thread[cur.name] = "finished" \/ Cardinality(stuck) < MaxTerminationFailures
       /\ IF ended \/ thread[cur.name] = "finished"
          THEN /\ thread' = [thread EXCEPT ![cur.name] = "finished"]
               /\ cur' = [cur EXCEPT !.grace = "ok"]
               /\ UNCHANGED stuck
          ELSE /\ stuck' = stuck \cup {cur.name}
               /\ cur' = [cur EXCEPT !.grace = "timeout"]
               /\ UNCHANGED thread
  /\ trace' = Append(trace, "grace_wait")
  /\ waits' = waits + 1
  /\ CloseAdvance
  /\ UNCHANGED <<workerVars, resolverVars, workers, affinity, started_run, wired, lacking, cmd_wired,
                 setup_failed, setupIdx, accepted, pc, criticalError, camera_on, shown>>

\* lines 3255-3279: the settings are saved and the event is accepted
CloseFinish ==
  /\ pc = "closing"
  /\ closeStep = "finish"
  /\ accepted' = TRUE
  /\ pc' = "closed"
  /\ closeStep' = "done"
  /\ UNCHANGED <<workerVars, resolverVars, supervisorVars, closeIdx, cur, trace, waits, stuck,
                 criticalError, camera_on, shown>>

-----------------------------------------------------------------------------
(* Specifications *)

InitCommon ==
  /\ MODULE_IMPORTS_OK = TRUE
  /\ MISSING_MODULES = <<>>
  /\ avail = [m \in Modules |-> Unprobed]
  /\ nItems = [m \in Modules |-> 0]
  /\ calls = [m \in Modules |-> 0]
  /\ ret = [m \in Modules |-> NoneResult]
  /\ cls = [m \in Modules |-> ""]
  /\ raised = FALSE
  /\ importIdx = 1
  /\ workers = <<>>
  /\ thread = [c \in Capabilities |-> "none"]
  /\ affinity = [c \in Capabilities |-> "main"]
  /\ started_run = {}
  /\ wired = [c \in Capabilities |-> {}]
  /\ lacking = [c \in Capabilities |-> {}]
  /\ cmd_wired = {}
  /\ setup_failed = [c \in Capabilities |-> "no"]
  /\ setupIdx = 1
  /\ criticalError = FALSE
  /\ camera_on = FALSE
  /\ shown = NothingShown
  /\ closeIdx = 0
  /\ closeStep = "idle"
  /\ cur = NoCur
  /\ trace = <<>>
  /\ waits = 0
  /\ stuck = {}
  /\ accepted = FALSE
  /\ cam = NoCam
  /\ tts = NoTTS
  /\ fb = [c \in Fallbacks |-> NoFallback]
  /\ issued = 0
  /\ mq = <<>>
  /\ handled = [c \in Capabilities |-> <<>>]
  /\ sent = {}
  /\ voice_input_on = FALSE
  /\ voice_output_enabled = TRUE
  /\ routes = <<>>
  /\ current_camera_filter_key = RAW_DEFAULT_CAMERA_FILTER
  /\ saver = NoSaver

\* the program as written: the interpreter starts executing the file
Init == InitCommon /\ pc = "import"

Next ==
  \/ ResolveNext
  \/ MainWindowInit
  \/ _perform_full_initialization
  \/ show_module_status_slot
  \/ \E checked \in BOOLEAN : toggle_camera_slot(checked)
  \/ CloseBegin
  \/ CloseFinish

Spec == Init /\ [][Next]_vars

\* _try_import exercised on its own, from the globals' initial values
InitResolver == InitCommon /\ pc = "try_import"

NextResolver == \E m \in Modules : TryImportCall(m)

SpecResolver == InitResolver /\ [][NextResolver]_vars

\* the globals after the first k resolution statements, when importing
\* registry module m does avs[m]
RECURSIVE ResolveUpTo(_, _)
ResolveUpTo(avs, k) ==
  IF k = 0
  THEN [imports_ok |-> TRUE, missing |-> <<>>,
        ret |-> [m \in Modules |-> NoneResult], cls |-> [m \in Modules |-> ""]]
  ELSE LET p == ResolveUpTo(avs, k - 1)
           r == _try_import(avs[k], ItemsList(k, 1), Registry[k].hint,
                            p.imports_ok, p.missing)
       IN [imports_ok |-> r.imports_ok, missing |-> r.missing,
           ret |-> [p.ret EXCEPT ![k] = r.ret],
           cls |-> [p.cls EXCEPT ![k] = SelectClass(r.ret, k)]]

\* the registry entries whose class the supervisor instantiates
WorkerModules == {worker_setups[i].reg : i \in 1..Len(worker_setups)} \ {0}

\* _setup_workers_and_threads applied to a constructed MainWindow once the
\* module-level resolution has run: the worker modules of one of the sets in
\* Fs have failed to import
InitSupervisorWith(Fs) ==
  \E F \in Fs :
    LET avs == [m \in Modules |->
                  IF m \in F THEN [load |-> "ImportError", attrs |-> {}]
                  ELSE [load |-> "ok", attrs |-> {Registry[m].item}]]
        r == ResolveUpTo(avs, Len(Registry))
    IN /\ MODULE_IMPORTS_OK = r.imports_ok
       /\ MISSING_MODULES = r.missing
       /\ avail = avs
       /\ nItems = [m \in Modules |-> 1]
       /\ calls = [m \in Modules |-> 1]
       /\ ret = r.ret
       /\ cls = r.cls
       /\ raised = FALSE
       /\ importIdx = Len(Registry) + 1
       /\ pc = "setup"
       /\ workers = <<>>
       /\ thread = [c \in Capabilities |-> "none"]
       /\ affinity = [c \in Capabilities |-> "main"]
       /\ started_run = {}
       /\ wired = [c \in Capabilities |-> {}]
       /\ lacking = [c \in Capabilities |-> {}]
       /\ cmd_wired = {}
       /\ setup_failed = [c \in Capabilities |-> "no"]
       /\ setupIdx = 1
       /\ criticalError = FALSE
       /\ camera_on = FALSE
       /\ shown = NothingShown
       /\ closeIdx = 0
       /\ closeStep = "idle"
       /\ cur = NoCur
       /\ trace = <<>>
       /\ waits = 0
       /\ stuck = {}
       /\ accepted = FALSE
       /\ cam = NoCam
       /\ tts = NoTTS
       /\ fb = [c \in Fallbacks |-> NoFallback]
       /\ issued = 0
       /\ mq = <<>>
       /\ handled = [c \in Capabilities |-> <<>>]
       /\ sent = {}
       /\ voice_input_on = FALSE
       /\ voice_output_enabled = TRUE
       /\ routes = <<>>
       /\ current_camera_filter_key = RAW_DEFAULT_CAMERA_FILTER
       /\ saver = NoSaver

\* any of the four worker modules may have failed to import
InitSupervisor == InitSupervisorWith(SUBSET WorkerModules)

NextSupervisor ==
  \/ SetupNext
  \/ SetupConnect
  \/ \E checked \in BOOLEAN : toggle_camera_slot(checked)
  \/ CloseBegin
  \/ CloseRequest
  \/ ShutdownDeliver
  \/ ThreadFinish
  \/ CloseWait
  \/ CloseTerminate
  \/ CloseGraceWait
  \/ CloseFinish

SpecSupervisor == InitSupervisor /\ [][NextSupervisor]_vars

\* the statements of closeEvent, run by the main thread: each call returns
\* (both waits are bounded by their timeout), so the handler keeps stepping
CloseStep == CloseRequest \/ CloseWait \/ CloseTerminate \/ CloseGraceWait \/ CloseFinish

\* closeEvent treats a worker by what its class defines and by whether its
\* thread runs: with every worker module imported and with none imported, each
\* worker is shut down both as the real class and as the dummy
InitShutdown == InitSupervisorWith({{}, WorkerModules})

SpecShutdown == InitShutdown /\ [][NextSupervisor]_vars /\ WF_vars(CloseStep)

\* the camera worker from its setup on: every worker module imported, the
\* window running, the camera toggled on and off while run() executes
InitCamera == InitSupervisorWith({{}})

NextCamera ==
  \/ SetupNext
  \/ SetupConnect
  \/ \E checked \in BOOLEAN : toggle_camera_slot(checked)
  \/ CameraRun
  \/ CameraLoopTest
  \/ CameraIteration
  \/ CameraExit

SpecCamera == InitCamera /\ [][NextCamera]_vars

\* the workers as _setup_workers_and_threads leaves them when every external
\* worker module is missing and no setup step fails: the four fallback classes
\* and the two internal workers, threads started, signals connected
InitContractWith(sv) ==
  LET avs == [m \in Modules |->
                IF m \in WorkerModules THEN [load |-> "ImportError", attrs |-> {}]
                ELSE [load |-> "ok", attrs |-> {Registry[m].item}]]
      r == ResolveUpTo(avs, Len(Registry))
      idx(c) == CHOOSE i \in 1..Len(worker_setups) : worker_setups[i].name = c
      class(c) == WorkerClass(idx(c), r.cls)
  IN /\ MODULE_IMPORTS_OK = r.imports_ok
     /\ MISSING_MODULES = r.missing
     /\ avail = avs
     /\ nItems = [m \in Modules |-> 1]
     /\ calls = [m \in Modules |-> 1]
     /\ ret = r.ret
     /\ cls = r.cls
     /\ raised = FALSE
     /\ importIdx = Len(Registry) + 1
     /\ pc = "running"
     /\ workers = [i \in 1..Len(worker_setups) |->
                     [name |-> worker_setups[i].name, worker |-> WorkerClass(i, r.cls),
                      thread |-> TRUE]]
     /\ thread = [c \in Capabilities |-> IF c # "camera" THEN "running" ELSE "created"]
     /\ affinity = [c \in Capabilities |->
                      moveToThread(TRUE \in ParentChoices(c, class(c)))]
     /\ started_run = {"camera"}
     /\ wired = [c \in Capabilities |-> original_setups_data[c] \cap ClassAttributes(c, class(c))]
     /\ lacking = [c \in Capabilities |-> {}]
     /\ cmd_wired = {[signal |-> "start_nlp_processing", to |-> "nlp",
                      slot |-> "process_user_input"],
                     [signal |-> "request_emotion_analysis", to |-> "emotion",
                      slot |-> "analyze_text_emotion"],
                     [signal |-> "stop_tts_signal", to |-> "tts", slot |-> "stop_speaking"],
                     [signal |-> "request_camera_filter_change", to |-> "camera",
                      slot |-> "set_filter"]}
     /\ setup_failed = [c \in Capabilities |-> "no"]
     /\ setupIdx = Len(worker_setups) + 1
     /\ criticalError = FALSE
     /\ camera_on = FALSE
     /\ shown = NothingShown
     /\ closeIdx = 0
     /\ closeStep = "idle"
     /\ cur = NoCur
     /\ trace = <<>>
     /\ waits = 0
     /\ stuck = {}
     /\ accepted = FALSE
     /\ cam = NoCam
     /\ tts = NoTTS
     /\ fb = [c \in Fallbacks |-> NoFallback]
     /\ issued = 0
     /\ mq = <<>>
     /\ handled = [c \in Capabilities |-> <<>>]
     /\ sent = {}
     /\ voice_input_on = FALSE
     /\ voice_output_enabled = TRUE
     /\ routes = <<>>
     /\ current_camera_filter_key = RAW_DEFAULT_CAMERA_FILTER
     /\ saver = sv

InitContract == InitContractWith(NoSaver)

\* a TTSWorker_Dummy on its own thread receiving speak and stop_speaking; the
\* thread's event loop keeps running, so expired timers fire and time passes
InitTTS == InitContract

NextTTS ==
  \/ TTSSpeak
  \/ TTSStopSpeaking
  \/ TTSTimerFire
  \/ TTSTick

SpecTTS == InitTTS /\ [][NextTTS]_vars /\ WF_vars(TTSTimerFire \/ TTSTick)

\* the workers' contracts: any methods run on the fallback workers and stop()
\* on an internal worker, their events delivered to MainWindow
NextContract ==
  \/ TTSSpeak
  \/ TTSStopSpeaking
  \/ TTSTimerFire
  \/ TTSTick
  \/ TTSCommand
  \/ FallbackCommand
  \/ VoiceTimerFire
  \/ WorkerStop
  \/ HandleEvent

SpecContract == InitContract /\ [][NextContract]_vars

\* MainWindow's command slots after _setup_workers_and_threads
InitCommands == InitSupervisorWith({{}, WorkerModules})

NextCommands ==
  \/ SetupNext
  \/ SetupConnect
  \/ \E checked \in BOOLEAN : toggle_camera_slot(checked)
  \/ \E checked \in BOOLEAN : toggle_voice_output_slot(checked)
  \/ \E checked \in BOOLEAN : toggle_voice_input_slot(checked)
  \/ interrupt_tts_slot
  \/ change_tts_voice_selection_slot
  \/ change_tts_rate_slot
  \/ change_tts_volume_slot

SpecCommands == InitCommands /\ [][NextCommands]_vars

\* the event handlers of MainWindow beside the two voice toggles, the workers
\* being the classes of this file: every external worker module is missing
InitRouting == InitSupervisorWith({WorkerModules})

NextRouting ==
  \/ SetupNext
  \/ SetupConnect
  \/ \E checked \in BOOLEAN : toggle_voice_output_slot(checked)
  \/ \E checked \in BOOLEAN : toggle_voice_input_slot(checked)
  \/ handle_recognized_voice
  \/ handle_nlp_result
  \/ handle_listening_error
  \/ HandleWorkerError

SpecRouting == InitRouting /\ [][NextRouting]_vars

\* the camera worker after a setup without failure, with what MainWindow does
\* around it: run() and the toggle as before, the filter combo box, the
\* handler of the workers' error events, and stop() called at any moment
InitCameraControl == InitContract

NextCameraControl ==
  \/ \E checked \in BOOLEAN : toggle_camera_slot(checked)
  \/ _handle_filter_combo_change_slot
  \/ CameraRun
  \/ CameraLoopTest
  \/ CameraIteration
  \/ CameraExit
  \/ HandleWorkerError
  \/ WorkerStop

SpecCameraControl == InitCameraControl /\ [][NextCameraControl]_vars

\* the whole life of the six handles when every external worker module is
\* missing: setup with a possible failure, the commands of the toggles and of
\* the event handlers, then closeEvent
InitLifecycle == InitSupervisorWith({WorkerModules})

NextLifecycle ==
  \/ SetupNext
  \/ SetupConnect
  \/ \E checked \in BOOLEAN : toggle_camera_slot(checked)
  \/ \E checked \in BOOLEAN : toggle_voice_input_slot(checked)
  \/ interrupt_tts_slot
  \/ handle_nlp_result
  \/ CloseBegin
  \/ CloseRequest
  \/ ThreadFinish
  \/ CloseWait
  \/ CloseTerminate
  \/ CloseGraceWait
  \/ CloseFinish

SpecLifecycle == InitLifecycle /\ [][NextLifecycle]_vars

\* setup with real external worker classes, each of which may lack one of the
\* signals listed for it, followed by handlers of the events that were wired
InitWiring == InitSupervisorWith({{}})

NextWiring ==
  \/ SetupNext
  \/ SetupNextPartial
  \/ SetupConnect
  \/ handle_listening_error
  \/ handle_nlp_result

SpecWiring == InitWiring /\ [][NextWiring]_vars

\* the camera worker receiving set_filter with any key, beside the toggle,
\* the filter combo box and run()
InitFilter == InitContract

NextFilter ==
  \/ \E checked \in BOOLEAN : toggle_camera_slot(checked)
  \/ _handle_filter_combo_change_slot
  \/ CameraSetFilter
  \/ CameraRun
  \/ CameraLoopTest
  \/ CameraIteration
  \/ CameraExit

SpecFilter == InitFilter /\ [][NextFilter]_vars

\* the fallback voice listener driven by the voice-input button: clicks, the
\* queued slot calls and the single-shot timers in any interleaving
InitListener == InitContract

NextListener ==
  \/ \E checked \in BOOLEAN : VoiceInputClick(checked)
  \/ ListenerInvoke
  \/ VoiceTimerFire

SpecListener == InitListener /\ [][NextListener]_vars

\* ImageSaveWorker receiving save_image calls, whatever imaging libraries the
\* imports of lines 55-74 found
InitSaver == \E sv \in Savers : InitContractWith(sv)

NextSaver == SaveImage

SpecSaver == InitSaver /\ [][NextSaver]_vars

\* the status query after _setup_workers_and_threads has run, whatever worker
\* modules failed to import and whatever setups failed
InitStatus == InitSupervisorWith(SUBSET WorkerModules)

NextStatus ==
  \/ SetupNext
  \/ SetupConnect
  \/ show_module_status_slot

SpecStatus == InitStatus /\ [][NextStatus]_vars

\* the same with the event loop running: a queued slot call is run and a
\* started timer fires
SpecListenerFair ==
  SpecListener /\ WF_vars(ListenerInvoke) /\ WF_vars(VoiceTimerFire)

-----------------------------------------------------------------------------
(* Properties of the Module Resolver *)

\* what a resolution statement should select for registry entry m, read off
\* the availability of the module alone
ExpectedClass(m) ==
  IF IsReal(avail[m], ItemsList(m, nItems[m])) THEN Registry[m].item ELSE Registry[m].dummy

\* the registry entries whose module is not fully available
Unavailable == {m \in Modules : calls[m] > 0 /\ ~IsReal(avail[m], ItemsList(m, nItems[m]))}

\* C1: each of the eight resolution statements at startup returns without
\* raising and selects exactly the real class (module loaded, every item
\* present) or the designated dummy class; once resolution is over no module
\* is left unresolved.
C1_TotalResolution ==
  /\ ~raised
  /\ \A m \in Modules :
       /\ calls[m] > 0 <=> m < importIdx
       /\ calls[m] > 0 => /\ cls[m] \in {Registry[m].item, Registry[m].dummy}
                          /\ cls[m] = ExpectedClass(m)
  /\ pc # "import" => importIdx = Len(Registry) + 1

\* C1 witness: resolution is over, one module raised an unexpected exception
\* while importing and fell back, another was selected as the real class
C1_Witness ==
  /\ pc = "main"
  /\ \E m1, m2 \in Modules :
       /\ avail[m1].load = "Exception" /\ cls[m1] = Registry[m1].dummy
       /\ avail[m2].load = "ok" /\ cls[m2] = Registry[m2].item

\* C2: _try_import returns a real implementation only when the module loads
\* and every requested item is present; in each of the three failure modes it
\* returns (None, False), the dummy is selected and MISSING_MODULES holds a
\* reason for the module (appended by the first failing call); a partial
\* match is never accepted.
C2_AcceptOnlyComplete ==
  \A m \in Modules : calls[m] > 0 =>
    LET items == ItemsList(m, nItems[m])
    IN IF IsReal(avail[m], items)
       THEN /\ ret[m] = [none |-> FALSE, items |-> ItemSet(items), ok |-> TRUE]
            /\ cls[m] = Registry[m].item
       ELSE /\ ret[m].none /\ ~ret[m].ok
            /\ cls[m] = Registry[m].dummy
            /\ ~MODULE_IMPORTS_OK
            /\ \E i \in 1..Len(MISSING_MODULES) :
                 StartsWith(MISSING_MODULES[i], Registry[m].hint)
            /\ calls[m] = 1 =>
                 /\ Len(MISSING_MODULES) = 1
                 /\ StartsWith(MISSING_MODULES[1], Registry[m].hint)

\* C2 witness: a partial match (two items requested, the module exposes the
\* class but not the second item) was answered with (None, False)
C2_Witness ==
  \E m \in Modules :
    /\ calls[m] = 1 /\ nItems[m] = 2
    /\ avail[m].load = "ok" /\ avail[m].attrs = {Registry[m].item}
    /\ ret[m] = NoneResult /\ cls[m] = Registry[m].dummy
    /\ Len(MISSING_MODULES) = 1

\* the display name the status dialog gives registry entry m
DisplayName(m) == module_map[m].display_name

\* C3: a status query made after resolution reports exactly the fallen-back
\* modules under fallback and every other module under active, and the
\* failure list has one entry per fallen-back module.
C3_StatusExact ==
  shown.open =>
    /\ shown.fallback = {DisplayName(m) : m \in Unavailable}
    /\ shown.active = {DisplayName(m) : m \in Modules \ Unavailable}
    /\ Len(shown.failures) = Cardinality(Unavailable)

\* C4: MODULE_IMPORTS_OK starts True, is False from the first fallback on,
\* never returns to True, and after resolution it is False exactly when some
\* module fell back.
C4_FlagMonotone ==
  /\ [](importIdx = 1 => MODULE_IMPORTS_OK)
  /\ [](MODULE_IMPORTS_OK <=> Unavailable = {})
  /\ [](pc # "import" => (~MODULE_IMPORTS_OK <=> FallenBack # {}))
  /\ [][~MODULE_IMPORTS_OK => ~MODULE_IMPORTS_OK']_vars

\* C4 witness: resolution is over, a module that fell back was followed by a
\* module that imported, and the flag is False
C4_Witness ==
  /\ pc = "main"
  /\ ~MODULE_IMPORTS_OK
  /\ \E m1, m2 \in Modules :
       m1 < m2 /\ m1 \in FallenBack /\ cls[m2] = Registry[m2].item

\* C5: calling _try_import again with the same arguments while the module's
\* availability is unchanged returns the same result, leaves the flag as it
\* is and adds no second reason to MISSING_MODULES.
C5_Idempotent ==
  [][\A m \in Modules :
       (calls[m] >= 1 /\ calls'[m] = calls[m] + 1) =>
         /\ ret'[m] = ret[m]
         /\ cls'[m] = cls[m]
         /\ MODULE_IMPORTS_OK' = MODULE_IMPORTS_OK
         /\ MISSING_MODULES' = MISSING_MODULES]_vars

-----------------------------------------------------------------------------
(* Properties of startup, the Worker Supervisor and the shutdown protocol *)

\* C6: once startup resolution has completed, no later operation (worker
\* setup and its failures, camera toggling, shutdown) changes the failure
\* report: MISSING_MODULES and MODULE_IMPORTS_OK stay as resolution left them.
C6_ReportFrozen ==
  [][importIdx = Len(Registry) + 1 =>
       UNCHANGED <<MISSING_MODULES, MODULE_IMPORTS_OK>>]_vars

\* C7: after _perform_full_initialization has returned, self.workers holds a
\* handle for each of the six worker names and the critical-error branch was
\* not taken.
C7_SixHandles ==
  pc \in {"running", "closing", "closed"} =>
    /\ ~criticalError
    /\ Len(workers) = Len(worker_setups)
    /\ WorkerNames(workers) = Capabilities

\* the position of capability c in worker_setups
SetupIndex(c) == CHOOSE i \in 1..Len(worker_setups) : worker_setups[i].name = c

\* the iterations of the setup loop that have run
SetUp == {worker_setups[i].name : i \in 1..(setupIdx - 1)}

\* a failed setup leaves a tombstone for that worker alone; every other worker
\* that has been set up has its handle, its wiring and its thread, started
\* unless it is the camera's
C8_Isolation ==
  /\ Len(workers) = setupIdx - 1
  /\ \A c \in SetUp :
       LET h == workers[SetupIndex(c)]
       IN IF setup_failed[c] # "no"
          THEN h = [name |-> c, worker |-> "None", thread |-> FALSE]
          ELSE /\ h = [name |-> c, worker |-> WorkerClass(SetupIndex(c), cls), thread |-> TRUE]
               /\ wired[c] = original_setups_data[c]
               /\ pc = "setup" =>
                    thread[c] = (IF c = "camera" THEN "created" ELSE "running")
               /\ c = "camera" => "run" \in ClassAttributes(c, h.worker) /\ c \in started_run
  /\ \A c \in Capabilities \ SetUp : setup_failed[c] = "no" /\ thread[c] = "none"

\* C8: when the setup of one worker raises, that worker alone gets a tombstone
\* handle and the loop goes on: every other worker is constructed, wired,
\* bound to its own thread and started (the camera's start is deferred).
C8_PartialFailureIsolation ==
  /\ C8_Isolation
  /\ \A c \in SetUp : setup_failed[c] = "no" => affinity[c] = "own"

\* how often step occurs in the statements run for the current worker
Count(step) == Cardinality({i \in 1..Len(trace) : trace[i] = step})

CurDone == cur.name # "" /\ closeStep \in {"request", "finish", "done"}

\* the statements of one loop iteration, in source order, after the request
CloseOrder == <<"quit", "wait", "terminate", "grace_wait">>

\* C10: terminate() is issued exactly when the thread was running, quit() was
\* sent and the 2500 ms wait timed out, never for a thread that had finished;
\* the statements run in the order request, quit, wait, terminate, grace
\* wait; and whatever the outcome the loop goes on to the remaining workers.
C10_TerminateOnlyOnTimeout ==
  /\ cur.terminated => cur.running /\ cur.quit /\ cur.waited = "timeout" /\ ~cur.ended
  /\ cur.waited = "ok" <=> cur.ended
  /\ cur.quit <=> cur.running
  /\ CurDone =>
       /\ cur.terminated <=> (cur.running /\ cur.quit /\ cur.waited = "timeout")
       /\ cur.grace # "no" <=> cur.terminated
       /\ closeIdx = SetupIndex(cur.name) + 1
  /\ LET req == IF cur.request = "none" THEN <<>> ELSE <<cur.request>>
     IN \E k \in 0..Len(CloseOrder) : trace = req \o SubSeq(CloseOrder, 1, k)
  /\ pc = "closed" => closeIdx = Len(workers) + 1

\* C10 witness: a thread that neither quit nor ended after terminate() was not
\* the last worker, and the loop went through the remaining ones
C10_Witness ==
  /\ pc = "closed"
  /\ \E i \in 1..(Len(workers) - 1) :
       /\ workers[i].name \in stuck
       /\ thread[workers[i].name] = "running"

-----------------------------------------------------------------------------
(* Properties of the worker contract *)

\* C11: for every worker whose thread is running when closeEvent reaches it,
\* the queued shutdown() has run on the worker (and emitted finished) by the
\* time closeEvent is done with that worker's thread; quit() right after the
\* queued call never leaves the call unprocessed.
C11_ShutdownExecuted ==
  (CurDone /\ cur.running) => cur.shutdown_ran

\* C12: when the camera is turned off while the capture loop runs, the queued
\* stop() reaches the worker while the loop is still running: the loop enters
\* at most one more iteration after the request and is left because the flag
\* was seen False, not because a frame could not be read.
C12_StopTakesEffect ==
  cam.off_requested =>
    /\ cam.since_off <= 1
    /\ cam.pc \in {"exit", "done"} => cam.cause = "stop_flag"

\* C13: when the device cannot be opened (OpenCV missing or VideoCapture not
\* opened), run() emits error then finished, once each, and no frame_ready.
C13_OpenFailure ==
  /\ ~cam.acquired => \A i \in 1..Len(cam.events) : cam.events[i] # "frame_ready"
  /\ (cam.pc = "done" /\ ~cam.acquired) => cam.events = <<"error", "finished">>

\* C13 witness: run() has returned after VideoCapture(...) was not opened
C13_Witness ==
  /\ cam.pc = "done"
  /\ ~cam.acquired
  /\ cam.cap = "closed"
  /\ Len(cam.events) = 2

\* C14: on every exit of run() after the device was acquired (flag seen False,
\* frame-read failure, error raised in an iteration) the device is released
\* and cap set to None before finished is emitted, and finished is emitted.
C14_ReleaseBeforeFinished ==
  (cam.acquired /\ cam.pc \in {"done", "raised"}) =>
    /\ cam.cap = "None"
    /\ cam.events # <<>>
    /\ cam.events[Len(cam.events)] = "finished"
    /\ cam.released_at \in 1..Len(cam.events)


\* the events of the utt-th text given to speak, in emission order
UtteranceEvents(utt) ==
  LET Mine(e) == e.utt = utt IN SelectSeq(tts.events, Mine)

\* what speak promises for a text of n words
ExpectedEvents(utt, n) ==
  <<[name |-> "speech_started", utt |-> utt, word |-> 0]>>
  \o [i \in 1..n |-> [name |-> "speech_word_boundary", utt |-> utt, word |-> i]]
  \o <<[name |-> "speech_finished", utt |-> utt, word |-> 0]>>

IsPrefix(a, b) == Len(a) <= Len(b) /\ a = SubSeq(b, 1, Len(a))

\* C15: after speak(text) the fallback TTS worker emits speech_started(text)
\* first, then one speech_word_boundary per word of the text in word order,
\* then, eventually, speech_finished(text); speak returns at once, so neither
\* side waits on the other.
C15_SpeakSequence ==
  /\ [](\A u \in 1..tts.speaks :
          IsPrefix(UtteranceEvents(u), ExpectedEvents(u, tts.words[u])))
  /\ \A u \in 1..MaxCommands :
       (tts.speaks >= u) ~> (/\ tts.speaks >= u
                             /\ UtteranceEvents(u) = ExpectedEvents(u, tts.words[u]))

C15_Witness ==
  /\ tts.speaks >= 1
  /\ tts.words[1] = MaxWords
  /\ UtteranceEvents(1) = ExpectedEvents(1, MaxWords)


\* how many of the first k events carry this name
CountEvents(name, k) ==
  Cardinality({i \in 1..k : tts.events[i].name = name})

\* the texts being spoken when the i-th event is emitted: started, not finished
Speaking(i) ==
  {u \in 1..tts.speaks :
     /\ \E j \in 1..(i - 1) : tts.events[j].utt = u /\ tts.events[j].name = "speech_started"
     /\ \A j \in 1..(i - 1) : tts.events[j].utt = u => tts.events[j].name # "speech_finished"}

\* C16: for every sequence of speak and stop_speaking, at every point there
\* are no more speech_finished than speech_started events, a speak has one
\* speech_finished, and nothing of an utterance is emitted after stop_speaking
\* interrupted it.
C16_CardinalityAndOrder ==
  /\ \A k \in 1..Len(tts.events) :
       CountEvents("speech_finished", k) <= CountEvents("speech_started", k)
  /\ (tts.timers = <<>>) =>
       CountEvents("speech_finished", Len(tts.events)) = tts.speaks
  /\ \A i \in 1..Len(tts.events) :
       tts.events[i].utt = 0 =>
         \A j \in (i + 1)..Len(tts.events) : tts.events[j].utt \notin Speaking(i)


\* the signals a fallback class declares, lines 421, 495-498, 558-562 and 616:
\* its capability events
FallbackSignals(c) ==
  CASE c = "emotion" -> {"emotion_detected"}
    [] c = "tts" -> {"speech_started", "speech_word_boundary", "speech_finished",
                     "available_voices_signal"}
    [] c = "voice_listener" -> {"text_recognized", "listening_started_signal",
                                "listening_stopped_signal", "vad_status_changed",
                                "listening_error"}
    [] c = "nlp" -> {"processing_complete"}

\* the contract of a capability: its events and the generic ones of lines 298-300
Contract(c) == FallbackSignals(c) \cup {"error", "finished", "status_update"}

\* C17: whatever commands run on a fallback worker (emotion, tts, voice
\* listener, nlp), every event it emits is named in its capability's
\* contract: the capability events, error, finished and status_update.
C17_EventsWithinContract ==
  /\ \A c \in Fallbacks : \A i \in 1..Len(fb[c].events) : fb[c].events[i] \in Contract(c)
  /\ \A i \in 1..Len(tts.events) : tts.events[i].name \in Contract("tts")

C17_Witness ==
  /\ \E i \in 1..Len(fb["voice_listener"].events) :
       fb["voice_listener"].events[i] = "text_recognized"
  /\ \E i \in 1..Len(tts.events) : tts.events[i].name = "speech_word_boundary"

\* C18: stop() is idempotent on every worker, internal (Worker.stop) or
\* fallback (BaseWorkerDummy.stop): a second call leaves the state and the
\* events emitted as the first call left them.
C18_StopIdempotent ==
  /\ stop(stop(cam)) = stop(cam)
  /\ \A c \in Fallbacks :
       BaseWorkerDummy_stop(BaseWorkerDummy_stop(fb[c])) = BaseWorkerDummy_stop(fb[c])
  /\ BaseWorkerDummy_stop(BaseWorkerDummy_stop(tts)) = BaseWorkerDummy_stop(tts)

C18_Witness ==
  /\ ~cam.is_running
  /\ issued >= 2

C20_AllCommandsQueued ==
  \A x \in sent : x.how = "queued"

\* the handled events of one kind
RoutesOf(event) == {i \in DOMAIN routes : routes[i].event = event}

\* the commands of route r that emit the given signal
SignalsOf(r, signal) == {k \in DOMAIN r.cmds : r.cmds[k].signal = signal}

\* C21: for every text_recognized event with a text that is not blank the
\* handler emits exactly one start_nlp_processing and exactly one
\* request_emotion_analysis carrying that text, and no emit runs the worker's
\* slot before it returns (the handler waits for no result); for a blank text
\* it emits neither
C21_RecognizedTextRouted ==
  \A i \in RoutesOf("text_recognized") :
    LET r == routes[i]
    IN IF Strip(r.text) = ""
       THEN r.cmds = <<>>
       ELSE /\ Len(r.cmds) = 2
            /\ \A s \in {"start_nlp_processing", "request_emotion_analysis"} :
                 /\ Cardinality(SignalsOf(r, s)) = 1
                 /\ \A k \in SignalsOf(r, s) :
                      r.cmds[k].text = r.text /\ r.cmds[k].how # "direct"

\* C22: after MainWindow has handled a listening_error event, or an error
\* event of the voice listener worker, voice_input_on is False
C22_ListenerErrorTurnsInputOff ==
  \A i \in RoutesOf("listening_error") \cup RoutesOf("error") :
    routes[i].from = "voice_listener" => ~routes[i].after.voice_input_on

\* voice input was on when the error event of the voice listener was handled
C22_Witness ==
  \E i \in RoutesOf("error") :
    /\ routes[i].from = "voice_listener"
    /\ routes[i].before.voice_input_on
    /\ ~voice_input_on

\* C23: after MainWindow has handled an error event of CameraWorker, which
\* reports under its worker_name, camera_on is False
C23_CameraErrorTurnsCameraOff ==
  \A i \in RoutesOf("error") :
    routes[i].from = "camera" => ~routes[i].after.camera_on

\* the commands the last handled event issued to the worker of capability c
RoutedTo(c) ==
  {<<i, k>> \in (DOMAIN routes) \X (1..2) :
     k \in DOMAIN routes[i].cmds /\ routes[i].cmds[k].to = c}

Constructed == {c \in SetUp : setup_failed[c] = "no"}

\* the workers that only react to commands
EventDriven == {"emotion", "tts", "voice_listener", "nlp", "image_save"}

\* C25: once setup has finished, the thread of every constructed event-driven
\* worker is running; the camera thread has been started only if the camera
\* was toggled on (which calls set_filter, then thread.start()); and a call
\* of CameraWorker.run executes on the camera thread, as the first thing that
\* thread does
C25_StartContract ==
  pc = "running" =>
    /\ \A c \in Constructed \cap EventDriven : thread[c] = "running"
    /\ thread["camera"] \in {"running", "finished"} =>
         Send("call", "camera", "set_filter") \in sent
    /\ cam.pc # "idle" => cam.context = "own"

\* C26: every worker that setup has constructed lives in its own thread, and
\* a call of CameraWorker.run, with its capture loop, executes on the camera
\* thread and never on the main thread
C26_OwnThread ==
  /\ \A c \in Constructed : affinity[c] = "own"
  /\ cam.context # "main"

\* C27: a worker that does not have one of the signals listed for it is wired
\* for every other listed signal, is recorded as a valid handle (worker and
\* thread both present) and, unless it is the camera, has its thread started
C27_WiringFaultTolerant ==
  \A c \in Constructed :
    /\ wired[c] = original_setups_data[c] \ lacking[c]
    /\ WorkersGet(workers, c).worker # "None"
    /\ WorkersGet(workers, c).thread
    /\ c # "camera" => thread[c] = "running"

\* setup has finished with the voice listener lacking listening_error and a
\* handler of another of its signals or of another worker's has run since
C27_Witness ==
  /\ pc = "running"
  /\ lacking["voice_listener"] = {"listening_error"}
  /\ "text_recognized" \in wired["voice_listener"]
  /\ thread["voice_listener"] = "running"
  /\ routes # <<>>

\* C28: a stop() that has run on the CameraWorker since its thread was started
\* is never lost: _is_running stays False from then on, whether stop() ran
\* before run() reached the loop or later, so the loop ends at its next test
C28_StopNotLost ==
  cam.stop_requested => ~cam.is_running

\* C30: whenever the camera is on and no set_filter call is waiting in the
\* worker's queue, CameraWorker.current_filter_key equals
\* MainWindow.current_camera_filter_key, whether the key was changed while
\* the loop was running or while the camera was off
C30_FilterInSync ==
  (camera_on /\ cam.filter_queue = <<>>) =>
    cam.current_filter_key = current_camera_filter_key

\* the speak commands of route r
SpeaksOf(r) == {k \in DOMAIN r.cmds : r.cmds[k].member = "speak"}

\* a tts worker was constructed
TTSHandle == WorkersGet(workers, "tts").worker # "None"

\* the text handle_nlp_result speaks for the result of route r
TextToSpeak(r) == IF r.has_text THEN r.text ELSE DefaultResponse

\* what C29 says of one handled NLP result whose text to speak is text
SpeakRule(r, text) ==
  /\ Len(r.cmds) <= 1
  /\ SpeaksOf(r) # {} <=> (r.enabled /\ text # "" /\ TTSHandle)
  /\ \A k \in SpeaksOf(r) :
       r.cmds[k].to = "tts" /\ r.cmds[k].how = "queued" /\ r.cmds[k].text = text

\* muting has sent stop_speaking to the tts worker, as a queued call
MuteRule ==
  (~voice_output_enabled /\ TTSHandle) => Send("queued", "tts", "stop_speaking") \in sent

\* C29 as stated: for an NLP result, speak is issued to the tts worker if and
\* only if voice output is enabled, the result's text_to_speak is not empty
\* and a tts worker exists; at most one speak per result, posted without
\* waiting; and turning voice output off issues stop_speaking
C29_SpeakIffEnabled ==
  /\ \A i \in RoutesOf("processing_complete") :
       SpeakRule(routes[i], IF routes[i].has_text THEN routes[i].text ELSE "")
  /\ MuteRule

\* C29 amended: the same with the text to speak being the result's
\* text_to_speak or, when the result has no such key, the default reply "I
\* have no specific response."
C29_SpeakIffEnabledOrDefault ==
  /\ \A i \in RoutesOf("processing_complete") : SpeakRule(routes[i], TextToSpeak(routes[i]))
  /\ MuteRule

\* an NLP result without text_to_speak was handled with voice output enabled
\* and the default reply was sent to the tts worker
C29_Witness ==
  \E i \in RoutesOf("processing_complete") :
    /\ ~routes[i].has_text
    /\ routes[i].enabled
    /\ \E k \in SpeaksOf(routes[i]) : routes[i].cmds[k].text = DefaultResponse

\* C31: CameraWorker.current_filter_key is always a key of RAW_CAMERA_FILTERS;
\* a set_filter call with a known key sets it to that key, and one with an
\* unknown key changes nothing of the worker and emits no event
C31_FilterKeyValid ==
  /\ [](cam.current_filter_key \in RAW_CAMERA_FILTERS)
  /\ [][\A filter_key \in FilterInputs :
          SetFilterStep(filter_key) =>
            /\ cam'.events = cam.events
            /\ IF filter_key \in RAW_CAMERA_FILTERS
               THEN cam'.current_filter_key = filter_key
               ELSE cam' = [cam EXCEPT !.filter_arg = filter_key]]_vars

\* set_filter has run with an unknown key after the key had been set to Sepia
C31_Witness ==
  /\ cam.filter_arg = "Unknown"
  /\ cam.current_filter_key = "Sepia"

\* the fallback voice listener
Listener == fb["voice_listener"]

\* the listening_started and listening_stopped events the listener has emitted
SessionEvents ==
  SelectSeq(Listener.events,
            LAMBDA e : e \in {"listening_started_signal", "listening_stopped_signal"})

\* a slot call that finds the listener already in the state it asks for
NoOpCall(w, member) ==
  \/ member = "start_listening" /\ w.is_listening
  \/ member = "stop_listening" /\ ~w.is_listening

\* C32: for any sequence of start_listening and stop_listening commands on the
\* fallback voice listener, listening_started and listening_stopped strictly
\* alternate beginning with listening_started; start_listening while listening
\* and stop_listening while not listening emit nothing and change no state,
\* and the last vad_status emitted by stop_listening is False
C32_SessionsAlternate ==
  /\ [](\A i \in 1..Len(SessionEvents) :
          SessionEvents[i] = IF i % 2 = 1 THEN "listening_started_signal"
                             ELSE "listening_stopped_signal")
  /\ [][ListenerInvoke =>
          LET w == Listener
              member == Head(w.posted)
          IN /\ NoOpCall(w, member) =>
                  /\ Listener' = [w EXCEPT !.posted = Tail(@)]
                  /\ UNCHANGED <<mq, handled, voice_input_on>>
             /\ (member = "stop_listening" /\ w.is_listening) =>
                  /\ Len(Listener'.vad) = Len(w.vad) + 1
                  /\ Listener'.vad[Len(Listener'.vad)] = FALSE]_vars

\* four slot calls have run and made one session: two of them found the
\* listener already in the state they asked for
C32_Witness ==
  /\ Len(SessionEvents) = 2
  /\ issued = 4
  /\ Listener.posted = <<>>
  /\ ~Listener.is_listening

\* the positions of the listener's events named name
EventsAt(name) == {i \in 1..Len(Listener.events) : Listener.events[i] = name}

\* the positions of the listening_started and listening_stopped events
SessionMarks == EventsAt("listening_started_signal") \cup EventsAt("listening_stopped_signal")

\* C33: the fallback voice listener emits text_recognized only while it is
\* listening: none after listening_stopped and before the next
\* listening_started, even when the timer of an earlier session is pending
C33_RecognitionOnlyWhileListening ==
  /\ [](\A i \in EventsAt("text_recognized") :
          /\ \E k \in SessionMarks : k < i
          /\ LET last == CHOOSE k \in SessionMarks :
                           k < i /\ \A j \in SessionMarks : j < i => j <= k
             IN Listener.events[last] = "listening_started_signal")
  /\ [][(VoiceTimerFire /\ ~Listener.is_listening) =>
          Listener'.events = Listener.events]_vars

\* a session has ended and its timer has fired afterwards, emitting nothing
C33_Witness ==
  /\ Len(SessionEvents) = 2
  /\ Listener.timers = 0
  /\ EventsAt("text_recognized") = {}

\* C34: each listening session (listening_started to the next
\* listening_stopped) produces at most one text_recognized
C34_OneRecognitionPerSession ==
  \A i, j \in EventsAt("text_recognized") :
    i < j => \E k \in SessionMarks : i < k /\ k < j

\* voice_input_on and the worker's _is_listening agree
InputConsistent == voice_input_on = Listener.is_listening

\* C35: with the fallback voice listener, once every queued command and event
\* has been delivered voice_input_on equals the worker's _is_listening, and
\* the two end up equal after any sequence of toggles
C35_EventuallyConsistent ==
  /\ []((Listener.posted = <<>> /\ mq = <<>>) => InputConsistent)
  /\ <>[]InputConsistent

\* three toggles have been delivered, the last one turning the input on
\* again after a full session
C35_Witness ==
  /\ issued = 3
  /\ Listener.posted = <<>>
  /\ mq = <<>>
  /\ Len(SessionEvents) = 3
  /\ voice_input_on

\* the tts event MainWindow handled k-th
TTSHandled(k) == tts.events[handled["tts"][k]]

\* the utterances whose speech_started MainWindow has handled among the first
\* k events and whose own speech_finished it has not
InProgress(k) ==
  {u \in 1..tts.speaks :
     /\ \E i \in 1..k : TTSHandled(i).name = "speech_started" /\ TTSHandled(i).utt = u
     /\ ~\E i \in 1..k : TTSHandled(i).name = "speech_finished" /\ TTSHandled(i).utt = u}

\* C36: with the fallback TTS worker the speaking indicator is never set to
\* idle by a speech_finished while another speak's speech_started has been
\* observed and its speech_finished has not
C36_IdleOnlyWhenSilent ==
  \A k \in 1..Len(handled["tts"]) :
    (TTSHandled(k).name = "speech_finished" /\ SpeakingLabel(k) = "Idle")
      => InProgress(k) = {}

\* the outcome events of the last save_image call
SaveOutcomes == SelectSeq(saver.events, LAMBDA e : e \in {"image_saved", "error"})

\* C37: every save_image command handled by ImageSaveWorker produces exactly
\* one outcome event, image_saved or error, for every frame type and every
\* combination of imaging libraries, and no exception escapes save_image
C37_OneOutcomePerSave ==
  saver.frame # NoFrame => (Len(SaveOutcomes) = 1 /\ ~saver.raised)

\* a NumPy frame went to Pillow, whose save raised, and save_image reported
\* the one error
C37_Witness ==
  /\ saver.frame.type = "ndarray"
  /\ saver.frame.ndim = 2
  /\ ~saver.CV2_AVAILABLE
  /\ saver.PIL_AVAILABLE
  /\ saver.lib.fromarray = "ok"
  /\ saver.lib.save = "raise"
  /\ saver.events = <<"error">>

\* C38: in every reachable state MODULE_IMPORTS_OK = False implies that
\* MISSING_MODULES is non-empty, so the branch of
\* check_module_import_status_and_notify for a degraded flag with an empty
\* failure list is never taken
C38_FlagImpliesReport ==
  /\ ~MODULE_IMPORTS_OK => MISSING_MODULES # <<>>
  /\ check_module_import_status_and_notify(MISSING_MODULES, MODULE_IMPORTS_OK)
       # "Note: Some optional modules might not have loaded"

\* the window runs after a module failed with ImportError: the flag is down
\* and the report names the file
C38_Witness ==
  /\ pc = "running"
  /\ ~MODULE_IMPORTS_OK
  /\ \E m \in Modules : avail[m].load = "ImportError" /\ InList(Registry[m].hint, MISSING_MODULES)

\* the handles of self.workers that hold a worker made for tracked component m
HandlesOf(m) ==
  {i \in 1..Len(workers) :
     /\ workers[i].worker # "None"
     /\ \E j \in 1..Len(worker_setups) :
          worker_setups[j].reg = m /\ worker_setups[j].name = workers[i].name}

\* whether component m runs on a fallback: by the class of its instantiated
\* worker when a handle with a worker exists, by the selected _cls otherwise
OnFallback(m) ==
  IF HandlesOf(m) # {}
  THEN \A i \in HandlesOf(m) : IsDummyName(workers[i].worker)
  ELSE IsDummyName(cls[m])

\* C39: the two lists returned by _get_module_statuses partition the eight
\* tracked components: each display name is in exactly one of active or
\* fallback, decided by the class of the instantiated worker when a handle
\* with a worker exists and by the selected _cls otherwise, and no name is in
\* both lists
C39_StatusPartition ==
  LET st == shown
  IN shown.open =>
     /\ Len(module_map) = 8
     /\ \A m \in 1..Len(module_map) :
          /\ module_map[m].display_name \in st.fallback <=> OnFallback(m)
          /\ module_map[m].display_name \in st.active <=> ~OnFallback(m)
     /\ st.active \cap st.fallback = {}

\* the status dialog is shown after a setup that instantiated a fallback
\* worker beside a real one and left a component without a handle
C39_Witness ==
  /\ shown.open
  /\ \E m1, m2 \in 1..Len(module_map) :
       /\ HandlesOf(m1) # {} /\ OnFallback(m1)
       /\ HandlesOf(m2) # {} /\ ~OnFallback(m2)
  /\ \E m \in 1..Len(module_map) :
       module_map[m].is_managed_worker /\ HandlesOf(m) = {}

=============================================================================
